---- MODULE Spec2Model ----
(***************************************************************************)
(* Micro-CDN: the Index Server (index_server.py) and the Monitor           *)
(* (monitor_server.py) as state machines.                                  *)
(*                                                                         *)
(* Wire tokens that the code passes to int() are sequences of characters,  *)
(* so that parsing and formatting are computed, not assumed.               *)
(***************************************************************************)
EXTENDS Integers, Sequences, FiniteSets, TLC

VARIABLES
    now,               \* time.time(), in seconds
    \* ---- Index Server (index_server.py) ----
    content_servers,   \* server_id -> [ip, tcp_port, udp_port, load, last_update, status]
    cs_order,          \* insertion order of the keys of content_servers
    file_index,        \* file_name -> sequence of <<server_id, file_size>>
    fi_order,          \* insertion order of the keys of file_index
    data_lock,         \* "free" or the handler that holds data_lock
    \* ---- one handle_client thread per client connection ----
    c_pc,              \* position of the handler
    c_file,            \* file_name of the GET being served
    c_response,        \* the LIST_SERVERS reply received from the Monitor
    c_refreshed,       \* return value of get_server_health_from_monitor: "True", "False"
    c_server,          \* the local `server`: a reference into content_servers or a detached dict
    c_size,            \* the local `file_size`
    c_iter,            \* iterator of `for sid, info in content_servers.items()`
    c_reply,           \* last reply sent on the connection
    c_open,            \* the connection is open
    c_sel,             \* (history) id of the record select_best_server returned
    \* ---- Monitor (monitor_server.py) ----
    servers,           \* server_id -> [ip, tcp_port, last_seen, load, num_files, status]
    srv_order,         \* insertion order of the keys of servers
    servers_lock,      \* "free" or the thread that holds servers_lock
    index_server_addr, \* NoAddr (None) or <<ip, port>>
    index_server_lock, \* "free" or the thread that holds index_server_lock
    h_pc,              \* position of check_server_health
    current_time,      \* the sweep's sampled time
    wake_at,           \* end of the sweep's time.sleep(2)
    h_iter,            \* position of the sweep in servers.items()
    h_notify,          \* server id being notified, or None
    outbox,            \* SERVER_DOWN messages delivered to a target, not yet handled
    \* ---- replies on the command connections ----
    r_reply,           \* reply to the last REGISTER line on a registration connection
    m_reply,           \* reply to the last command on the Monitor's TCP connection:
                       \* [kind, lines], kind None when nothing was sent
    m_open,            \* the Monitor's TCP connection is open
    \* ---- history, per server id, since its last heartbeat ----
    flips,             \* alive->dead transitions
    attempts,          \* SERVER_DOWN delivery attempts
    \* ---- Monitor: udp_heartbeat_listener ----
    u_pc,              \* "recvfrom", "acquire" (a datagram in hand, before `with servers_lock`),
                       \* or "stopped" when the thread has ended
    u_last,            \* (history) what the last datagram led to
    \* ---- Content Server CS1 (content_server.py): start() ----
    s_pc,              \* position of start() and of register_with_index_server
    s_file,            \* index of the next catalog entry to announce
    s_result,          \* return value of register_with_index_server
    s_calls,           \* (history) calls of register_with_index_server
    s_responses,       \* (history) what the two sock.recv(1024) returned
    t_listening,       \* start_tcp_server is accepting connections
    \* ---- Content Server CS1: send_heartbeat ----
    e_pc,              \* "off", "send", "sleep", or "stopped" when the thread has ended
    e_wake,            \* end of time.sleep(HEARTBEAT_INTERVAL)
    e_failed,          \* (history) the last sendto raised
    \* ---- the registration connection of CS1 at the Index Server ----
    g_open,            \* "none", "peeked" (handler started), "closed"
    g_sent,            \* bytes CS1 has written to the connection
    g_rcvd,            \* bytes handle_content_server has received
    g_lines,           \* lines of the last recv(4096) not yet processed
    g_replies,         \* replies sent to CS1, not yet received by it
    \* ---- Content Server CS1: handle_client on a download connection ----
    x_pc,              \* "none", "recv", "closed"
    x_reply,           \* replies sent on the connection
    x_inbox,           \* commands the client has sent, not yet received
    active_clients,    \* self.active_clients
    y_pc               \* handle_client on a second, concurrent download connection

idx_vars == <<content_servers, cs_order, file_index, fi_order, data_lock>>
cl_vars == <<c_pc, c_file, c_response, c_refreshed, c_server, c_size, c_iter,
             c_reply, c_open, c_sel>>
mon_vars == <<servers, srv_order, servers_lock, index_server_addr, index_server_lock>>
chk_vars == <<h_pc, current_time, wake_at, h_iter, h_notify>>
hist_vars == <<flips, attempts>>
conn_vars == <<r_reply, m_reply, m_open>>
cs_vars == <<s_pc, s_file, s_result, s_calls, s_responses, t_listening>>
e_vars == <<e_pc, e_wake, e_failed>>
reg_vars == <<g_open, g_sent, g_rcvd, g_lines, g_replies>>
x_vars == <<x_pc, x_reply, x_inbox, active_clients, y_pc>>
peer_vars == <<cs_vars, e_vars, reg_vars, x_vars, u_pc, u_last>>
vars == <<now, idx_vars, cl_vars, mon_vars, chk_vars, outbox, hist_vars, conn_vars,
          peer_vars>>

None == "None"

\* index_server_addr = None
NoAddr == <<>>

(***************************************************************************)
(* int() and str() on wire tokens                                          *)
(***************************************************************************)
Digits == <<"0", "1", "2", "3", "4", "5", "6", "7", "8", "9">>

IsDigit(c) == \E i \in 1..10 : Digits[i] = c

DigitVal(c) == (CHOOSE i \in 1..10 : Digits[i] = c) - 1

AllDigits(tok) == Len(tok) > 0 /\ \A i \in 1..Len(tok) : IsDigit(tok[i])

\* int(tok) raises ValueError unless tok is digits with an optional sign
IsInt(tok) ==
    IF Len(tok) > 0 /\ tok[1] \in {"-", "+"} THEN AllDigits(Tail(tok)) ELSE AllDigits(tok)

RECURSIVE NatOf(_)
NatOf(tok) ==
    IF Len(tok) = 0 THEN 0
    ELSE 10 * NatOf(SubSeq(tok, 1, Len(tok) - 1)) + DigitVal(tok[Len(tok)])

IntOf(tok) ==
    IF tok[1] = "-" THEN 0 - NatOf(Tail(tok))
    ELSE IF tok[1] = "+" THEN NatOf(Tail(tok))
    ELSE NatOf(tok)

RECURSIVE StrNat(_)
StrNat(n) ==
    IF n < 10 THEN <<Digits[n + 1]>> ELSE Append(StrNat(n \div 10), Digits[(n % 10) + 1])

\* f"{n}" of an int
Str(n) == IF n < 0 THEN <<"-">> \o StrNat(0 - n) ELSE StrNat(n)

(***************************************************************************)
(* str.startswith on command words: the words with a proper prefix that is *)
(* a command of the protocol                                               *)
(***************************************************************************)
ProperPrefixes ==
    {<<"GETX", "GET">>, <<"HEARTBEATS", "HEARTBEAT">>, <<"SERVER_DOWNS", "SERVER_DOWN">>,
     <<"REGISTERED", "REGISTER">>, <<"REGISTER_INDEX", "REGISTER">>,
     <<"REGISTER_INDEXES", "REGISTER">>, <<"REGISTER_INDEXES", "REGISTER_INDEX">>,
     <<"ADD_FILES", "ADD_FILE">>, <<"UPDATE_LOADS", "UPDATE_LOAD">>}

startswith(word, prefix) == word = prefix \/ <<word, prefix>> \in ProperPrefixes

(***************************************************************************)
(* Python dict helpers                                                     *)
(***************************************************************************)
DictSet(d, k, v) == [x \in DOMAIN d \cup {k} |-> IF x = k THEN v ELSE d[x]]

OrderSet(order, d, k) == IF k \in DOMAIN d THEN order ELSE Append(order, k)

NoRecord == [ip |-> None, tcp_port |-> 0, udp_port |-> 0, load |-> 0,
             last_update |-> 0, status |-> None]

(***************************************************************************)
(* Index Server: the registry store                                        *)
(***************************************************************************)
Clients == {"c1"}

IsAliveHost(e) ==
    e[1] \in DOMAIN content_servers /\ content_servers[e[1]].status = "alive"

\* candidates.sort(key=load): Python's sort is stable
RECURSIVE InsertByLoad(_, _)
InsertByLoad(sorted, e) ==
    IF sorted = <<>> THEN <<e>>
    ELSE IF content_servers[e[1]].load < content_servers[Head(sorted)[1]].load
         THEN <<e>> \o sorted
         ELSE <<Head(sorted)>> \o InsertByLoad(Tail(sorted), e)

RECURSIVE SortByLoad(_)
SortByLoad(cands) ==
    IF cands = <<>> THEN <<>>
    ELSE InsertByLoad(SortByLoad(SubSeq(cands, 1, Len(cands) - 1)), cands[Len(cands)])

NotFound == [found |-> FALSE, sid |-> None, size |-> 0]

select_first_candidate(file_name) ==
    IF file_name \notin DOMAIN file_index THEN NotFound
    ELSE LET candidates == SelectSeq(file_index[file_name], IsAliveHost)
         IN  IF candidates = <<>> THEN NotFound
             ELSE [found |-> TRUE, sid |-> candidates[1][1], size |-> candidates[1][2]]

select_any_registered(file_name) ==
    IF file_name \notin DOMAIN file_index THEN NotFound
    ELSE LET candidates == SelectSeq(file_index[file_name],
                                     LAMBDA e : e[1] \in DOMAIN content_servers)
             best == Head(SortByLoad(candidates))
         IN  IF candidates = <<>> THEN NotFound
             ELSE [found |-> TRUE, sid |-> best[1], size |-> best[2]]

\* select_best_server: sid names the record whose reference is returned
select_best_server(file_name) ==
    IF file_name \notin DOMAIN file_index THEN NotFound
    ELSE LET candidates == SelectSeq(file_index[file_name], IsAliveHost)
             best == Head(SortByLoad(candidates))
         IN  IF candidates = <<>> THEN NotFound
             ELSE [found |-> TRUE, sid |-> best[1], size |-> best[2]]

\* a REGISTER replaces the dict object: a handler's `server` keeps the old one
Detach(sid) ==
    [h \in Clients |->
        IF c_server[h].ref = sid
        THEN [ref |-> None, val |-> content_servers[sid]]
        ELSE c_server[h]]

register_record_merged(parts, ip) ==
    IF parts[2] \in DOMAIN content_servers
    THEN [content_servers[parts[2]] EXCEPT
            !.ip = ip, !.tcp_port = IntOf(parts[3]), !.udp_port = IntOf(parts[4]),
            !.last_update = now]
    ELSE [ip |-> ip, tcp_port |-> IntOf(parts[3]), udp_port |-> IntOf(parts[4]),
          load |-> 0, last_update |-> now, status |-> "alive"]

\* the record a REGISTER stores
register_record(parts, ip) ==
    [ip |-> ip, tcp_port |-> IntOf(parts[3]), udp_port |-> IntOf(parts[4]),
     load |-> 0, last_update |-> now, status |-> "alive"]

\* a line REGISTER <server_id> <tcp_port> <udp_port> from peer address ip; a
\* ValueError of int() leaves the `with`, is logged by the handler's except
\* and the connection is closed without a reply
Register(parts, ip) ==
    /\ startswith(parts[1], "REGISTER")
    /\ IF Len(parts) >= 4
       THEN /\ data_lock = "free"
            /\ IF IsInt(parts[3]) /\ IsInt(parts[4])
               THEN /\ content_servers' =
                        DictSet(content_servers, parts[2], register_record(parts, ip))
                    /\ cs_order' = OrderSet(cs_order, content_servers, parts[2])
                    /\ c_server' = Detach(parts[2])
                    /\ r_reply' = "OK REGISTERED"
               ELSE /\ r_reply' = None
                    /\ UNCHANGED <<content_servers, cs_order, c_server>>
       ELSE /\ r_reply' = "ERROR INVALID_FORMAT"
            /\ UNCHANGED <<content_servers, cs_order, c_server>>
    /\ UNCHANGED <<m_reply, m_open, now, peer_vars, file_index, fi_order, data_lock, c_pc, c_file, c_response, c_refreshed,
                   c_size, c_iter, c_reply, c_open, c_sel, mon_vars, chk_vars, outbox,
                   hist_vars>>

add_file_always(fi, sid, file_name, size) ==
    LET fi1 == IF file_name \in DOMAIN fi THEN fi ELSE DictSet(fi, file_name, <<>>)
    IN  IF IsInt(size)
        THEN DictSet(fi1, file_name, Append(fi1[file_name], <<sid, IntOf(size)>>))
        ELSE fi1

add_file_overwrite(fi, sid, file_name, size) ==
    LET fi1 == IF file_name \in DOMAIN fi THEN fi ELSE DictSet(fi, file_name, <<>>)
        others == SelectSeq(fi1[file_name], LAMBDA e : e[1] # sid)
    IN  IF IsInt(size)
        THEN DictSet(fi1, file_name, Append(others, <<sid, IntOf(size)>>))
        ELSE fi1

\* the body of `with data_lock` of ADD_FILE; int(file_size) may raise after
\* the empty host list was created
add_file(fi, sid, file_name, size) ==
    LET fi1 == IF file_name \in DOMAIN fi THEN fi ELSE DictSet(fi, file_name, <<>>)
        existing == SelectSeq(fi1[file_name], LAMBDA e : e[1] = sid)
    IN  IF existing = <<>> /\ IsInt(size)
        THEN DictSet(fi1, file_name, Append(fi1[file_name], <<sid, IntOf(size)>>))
        ELSE fi1

\* ADD_FILE <sid> <file_name> <file_size>
AddFile(parts) ==
    /\ startswith(parts[1], "ADD_FILE")
    /\ Len(parts) >= 4
    /\ data_lock = "free"
    /\ file_index' = add_file(file_index, parts[2], parts[3], parts[4])
    /\ fi_order' = OrderSet(fi_order, file_index, parts[3])
    /\ UNCHANGED <<conn_vars, now, peer_vars, content_servers, cs_order, data_lock, cl_vars, mon_vars,
                   chk_vars, outbox, hist_vars>>

\* UPDATE_LOAD <sid> <load>
UpdateLoad(parts) ==
    /\ startswith(parts[1], "UPDATE_LOAD")
    /\ Len(parts) >= 3
    /\ data_lock = "free"
    /\ IF parts[2] \in DOMAIN content_servers /\ IsInt(parts[3])
       THEN content_servers' = [content_servers EXCEPT
                ![parts[2]].load = IntOf(parts[3]), ![parts[2]].last_update = now]
       ELSE UNCHANGED content_servers
    /\ UNCHANGED <<conn_vars, now, peer_vars, cs_order, file_index, fi_order, data_lock, cl_vars, mon_vars, chk_vars,
                   outbox, hist_vars>>

mark_dead_upsert(message) ==
    IF Len(message) >= 2 /\ startswith(message[1], "SERVER_DOWN")
    THEN DictSet(content_servers, message[2],
                 IF message[2] \in DOMAIN content_servers
                 THEN [content_servers[message[2]] EXCEPT !.status = "dead"]
                 ELSE [NoRecord EXCEPT !.status = "dead"])
    ELSE content_servers

\* the effect of SERVER_DOWN <server_id> ... on the registry
mark_dead(message) ==
    IF Len(message) >= 2 /\ startswith(message[1], "SERVER_DOWN")
         /\ message[2] \in DOMAIN content_servers
    THEN [content_servers EXCEPT ![message[2]].status = "dead"]
    ELSE content_servers

\* handle_monitor_notification on one accepted connection carrying message
Notification(message) ==
    /\ data_lock = "free"
    /\ content_servers' = mark_dead(message)
    /\ UNCHANGED <<conn_vars, now, peer_vars, cs_order, file_index, fi_order, data_lock, cl_vars, mon_vars, chk_vars,
                   hist_vars>>

\* the merge loop over the lines of a LIST_SERVERS reply; a line is
\* <<"SERVER", id, ip, tcp_port, load, status>>; int(load) may raise mid-way
RECURSIVE MergeLines(_, _)
MergeLines(cs, lines) ==
    IF lines = <<>> THEN [cs |-> cs, ok |-> TRUE]
    ELSE LET parts == Head(lines)
         IN  IF Len(parts) >= 6 /\ parts[1] = "SERVER" /\ parts[2] \in DOMAIN cs
             THEN IF IsInt(parts[5])
                  THEN MergeLines([cs EXCEPT ![parts[2]].load = IntOf(parts[5]),
                                             ![parts[2]].status = parts[6]],
                                  Tail(lines))
                  ELSE [cs |-> cs, ok |-> FALSE]
             ELSE MergeLines(cs, Tail(lines))

(***************************************************************************)
(* Index Server: handle_client, one thread per client connection           *)
(***************************************************************************)
NoReply == [kind |-> None, ip |-> None, port |-> 0, id |-> None, size |-> 0, lines |-> <<>>]

Reply(kind) == [NoReply EXCEPT !.kind = kind]

ServerReply(server, sid, size) ==
    [kind |-> "SERVER", ip |-> server.ip, port |-> server.tcp_port, id |-> sid,
     size |-> size, lines |-> <<>>]

NoServer == [ref |-> None, val |-> NoRecord]

NoIter == [k |-> 0, n |-> 0]

\* the dict the local `server` refers to
ServerOf(h) ==
    IF c_server[h].ref # None THEN content_servers[c_server[h].ref] ELSE c_server[h].val

\* a request that is no well-formed GET leaves no GET locals
NoGet(h) ==
    /\ c_file' = [c_file EXCEPT ![h] = None]
    /\ c_refreshed' = [c_refreshed EXCEPT ![h] = None]
    /\ c_size' = [c_size EXCEPT ![h] = 0]
    /\ c_sel' = [c_sel EXCEPT ![h] = None]

\* back to conn.recv with the reply sent
Answer(h, reply) ==
    /\ c_pc' = [c_pc EXCEPT ![h] = "recv"]
    /\ c_reply' = [c_reply EXCEPT ![h] = reply]
    /\ c_response' = [c_response EXCEPT ![h] = <<>>]
    /\ c_server' = [c_server EXCEPT ![h] = NoServer]
    /\ c_iter' = [c_iter EXCEPT ![h] = NoIter]

\* LIST_FILES: per file, in the order of file_index, the size announced by its
\* first alive registered host; files without one are left out
list_files_response ==
    LET listed == SelectSeq(fi_order,
                      LAMBDA f : SelectSeq(file_index[f], IsAliveHost) # <<>>)
    IN  [i \in 1..Len(listed) |->
            <<"FILE", listed[i], Str(Head(SelectSeq(file_index[listed[i]], IsAliveHost))[2])>>]

\* LIST_SERVERS: every record of the registry, in the order of content_servers
list_servers_response ==
    [i \in 1..Len(cs_order) |->
        LET info == content_servers[cs_order[i]]
        IN  <<"SERVER", cs_order[i], info.ip, Str(info.tcp_port), Str(info.load),
              info.status>>]

ListReply(lines) == [NoReply EXCEPT !.kind = "LIST", !.lines = lines]

\* get_server_health_from_monitor is entered: socket, connect and sendall run
\* wholly under data_lock (a function body wrapped in `with data_lock:`)
StartRefreshUnderLock(h) ==
    /\ data_lock = "free"
    /\ data_lock' = h
    /\ c_pc' = [c_pc EXCEPT ![h] = "refresh"]

\* get_server_health_from_monitor is entered: socket, connect and sendall run
\* without data_lock
StartRefresh(h) ==
    /\ c_pc' = [c_pc EXCEPT ![h] = "refresh"]
    /\ UNCHANGED data_lock

\* a message arrives on the connection: HELLO, GET <file>, LIST_FILES,
\* LIST_SERVERS, anything else
ClientRequest(h, message) ==
    /\ c_pc[h] = "recv"
    /\ c_open[h]
    /\ IF message = <<"HELLO">>
       THEN /\ Answer(h, Reply("WELCOME MICRO-CDN"))
            /\ NoGet(h)
            /\ UNCHANGED data_lock
       ELSE IF startswith(message[1], "GET")
       THEN IF Len(message) >= 2
            THEN /\ StartRefresh(h)
                 /\ c_file' = [c_file EXCEPT ![h] = message[2]]
                 /\ c_reply' = [c_reply EXCEPT ![h] = NoReply]
                 /\ c_refreshed' = [c_refreshed EXCEPT ![h] = None]
                 /\ c_size' = [c_size EXCEPT ![h] = 0]
                 /\ c_sel' = [c_sel EXCEPT ![h] = None]
                 /\ UNCHANGED <<c_response, c_server, c_iter>>
            ELSE /\ Answer(h, Reply("ERROR INVALID_FORMAT"))
                 /\ NoGet(h)
                 /\ UNCHANGED data_lock
       ELSE IF message = <<"LIST_FILES">>
       THEN /\ data_lock = "free"
            /\ Answer(h, ListReply(list_files_response))
            /\ NoGet(h)
            /\ UNCHANGED data_lock
       ELSE IF message = <<"LIST_SERVERS">>
       THEN /\ data_lock = "free"
            /\ Answer(h, ListReply(list_servers_response))
            /\ NoGet(h)
            /\ UNCHANGED data_lock
       ELSE /\ Answer(h, Reply("ERROR UNKNOWN_COMMAND"))
            /\ NoGet(h)
            /\ UNCHANGED data_lock
    /\ UNCHANGED <<conn_vars, now, peer_vars, content_servers, cs_order, file_index, fi_order, c_open, mon_vars,
                   chk_vars, outbox, hist_vars>>

\* the Monitor's reply is complete ("END" seen or the peer closed)
RefreshReply(h, response) ==
    /\ c_pc[h] = "refresh"
    /\ c_pc' = [c_pc EXCEPT ![h] = "lock"]
    /\ c_response' = [c_response EXCEPT ![h] = response]
    /\ UNCHANGED <<conn_vars, now, peer_vars, idx_vars, c_file, c_refreshed, c_server, c_size, c_iter,
                   c_reply, c_open, c_sel, mon_vars, chk_vars, outbox, hist_vars>>

\* connect, send or recv raised (refused, timeout): return False
RefreshFail(h) ==
    /\ c_pc[h] = "refresh"
    /\ c_pc' = [c_pc EXCEPT ![h] = "select"]
    /\ c_refreshed' = [c_refreshed EXCEPT ![h] = "False"]
    /\ UNCHANGED <<conn_vars, now, peer_vars, idx_vars, c_file, c_response, c_server, c_size, c_iter,
                   c_reply, c_open, c_sel, mon_vars, chk_vars, outbox, hist_vars>>

\* `with data_lock:` of the merge is entered
MergeLock(h) ==
    /\ c_pc[h] = "lock"
    /\ data_lock = "free"
    /\ data_lock' = h
    /\ c_pc' = [c_pc EXCEPT ![h] = "merge"]
    /\ UNCHANGED <<conn_vars, now, peer_vars, content_servers, cs_order, file_index, fi_order, c_file, c_response,
                   c_refreshed, c_server, c_size, c_iter, c_reply, c_open, c_sel,
                   mon_vars, chk_vars, outbox, hist_vars>>

\* the merge also sets every registered id the reply does not name to dead
MergeMarksAbsentDead(h) ==
    /\ c_pc[h] = "merge"
    /\ data_lock = h
    /\ LET m == MergeLines(content_servers, c_response[h])
       IN  /\ content_servers' =
                [s \in DOMAIN m.cs |->
                    IF \E i \in 1..Len(c_response[h]) : c_response[h][i][2] = s
                    THEN m.cs[s]
                    ELSE [m.cs[s] EXCEPT !.status = "dead"]]
           /\ c_refreshed' = [c_refreshed EXCEPT ![h] = IF m.ok THEN "True" ELSE "False"]
    /\ data_lock' = "free"
    /\ c_pc' = [c_pc EXCEPT ![h] = "select"]
    /\ c_response' = [c_response EXCEPT ![h] = <<>>]
    /\ UNCHANGED <<conn_vars, now, peer_vars, cs_order, file_index, fi_order, c_file, c_server, c_size, c_iter,
                   c_reply, c_open, c_sel, mon_vars, chk_vars, outbox, hist_vars>>

\* the merge also takes the TCP port the Monitor reports
MergeAdoptsAddress(h) ==
    /\ c_pc[h] = "merge"
    /\ data_lock = h
    /\ LET m == MergeLines(content_servers, c_response[h])
           port(s) == LET i == CHOOSE i \in 1..Len(c_response[h]) : c_response[h][i][2] = s
                      IN  IntOf(c_response[h][i][4])
       IN  /\ content_servers' =
                [s \in DOMAIN m.cs |->
                    IF \E i \in 1..Len(c_response[h]) : c_response[h][i][2] = s
                    THEN [m.cs[s] EXCEPT !.tcp_port = port(s)]
                    ELSE m.cs[s]]
           /\ c_refreshed' = [c_refreshed EXCEPT ![h] = IF m.ok THEN "True" ELSE "False"]
    /\ data_lock' = "free"
    /\ c_pc' = [c_pc EXCEPT ![h] = "select"]
    /\ c_response' = [c_response EXCEPT ![h] = <<>>]
    /\ UNCHANGED <<conn_vars, now, peer_vars, cs_order, file_index, fi_order, c_file, c_server, c_size, c_iter,
                   c_reply, c_open, c_sel, mon_vars, chk_vars, outbox, hist_vars>>

\* the merge loop, then the lock is released and True (False on ValueError) returned
Merge(h) ==
    /\ c_pc[h] = "merge"
    /\ data_lock = h
    /\ LET m == MergeLines(content_servers, c_response[h])
       IN  /\ content_servers' = m.cs
           /\ c_refreshed' = [c_refreshed EXCEPT ![h] = IF m.ok THEN "True" ELSE "False"]
    /\ data_lock' = "free"
    /\ c_pc' = [c_pc EXCEPT ![h] = "select"]
    /\ c_response' = [c_response EXCEPT ![h] = <<>>]
    /\ UNCHANGED <<conn_vars, now, peer_vars, cs_order, file_index, fi_order, c_file, c_server, c_size, c_iter,
                   c_reply, c_open, c_sel, mon_vars, chk_vars, outbox, hist_vars>>

\* server, file_size = select_best_server(file_name); `if server:` else FILE_NOT_FOUND
Select(h) ==
    /\ c_pc[h] = "select"
    /\ data_lock = "free"
    /\ LET r == select_best_server(c_file[h])
       IN  IF r.found
           THEN /\ c_pc' = [c_pc EXCEPT ![h] = "lookup"]
                /\ c_server' = [c_server EXCEPT ![h] = [ref |-> r.sid, val |-> NoRecord]]
                /\ c_size' = [c_size EXCEPT ![h] = r.size]
                /\ c_sel' = [c_sel EXCEPT ![h] = r.sid]
                /\ c_iter' = [c_iter EXCEPT ![h] = NoIter]
                /\ UNCHANGED <<c_reply, c_response>>
           ELSE /\ Answer(h, Reply("ERROR FILE_NOT_FOUND"))
                /\ UNCHANGED <<c_size, c_sel>>
    /\ UNCHANGED <<conn_vars, now, peer_vars, idx_vars, c_file, c_refreshed, c_open, mon_vars, chk_vars,
                   outbox, hist_vars>>

\* `for sid, info in content_servers.items(): if info == server:` without the
\* lock, one step per iterator operation; a changed dict size raises
\* RuntimeError, caught by the handler's except: the connection is closed
Lookup(h) ==
    /\ c_pc[h] = "lookup"
    /\ LET it == c_iter[h]
           size == Len(cs_order)
       IN  IF it.k = 0
           THEN \* the iterator is created
                /\ c_iter' = [c_iter EXCEPT ![h] = [k |-> 1, n |-> size]]
                /\ UNCHANGED <<c_pc, c_reply, c_response, c_server, c_open>>
           ELSE IF it.n # size
           THEN \* RuntimeError: dictionary changed size during iteration
                /\ c_pc' = [c_pc EXCEPT ![h] = "closed"]
                /\ c_open' = [c_open EXCEPT ![h] = FALSE]
                /\ c_server' = [c_server EXCEPT ![h] = NoServer]
                /\ c_iter' = [c_iter EXCEPT ![h] = NoIter]
                /\ UNCHANGED <<c_reply, c_response>>
           ELSE IF it.k > size
           THEN \* the loop ends without a match: the first response stands
                /\ Answer(h, ServerReply(ServerOf(h), "unknown", c_size[h]))
                /\ UNCHANGED c_open
           ELSE IF content_servers[cs_order[it.k]] = ServerOf(h)
           THEN /\ Answer(h, ServerReply(ServerOf(h), cs_order[it.k], c_size[h]))
                /\ UNCHANGED c_open
           ELSE /\ c_iter' = [c_iter EXCEPT ![h] = [it EXCEPT !.k = it.k + 1]]
                /\ UNCHANGED <<c_pc, c_reply, c_response, c_server, c_open>>
    /\ UNCHANGED <<conn_vars, now, peer_vars, idx_vars, c_file, c_refreshed, c_size, c_sel, mon_vars,
                   chk_vars, outbox, hist_vars>>

(***************************************************************************)
(* Monitor: heartbeat listener, liveness checker, TCP service              *)
(***************************************************************************)
HEARTBEAT_TIMEOUT == 8

SWEEP_PERIOD == 2

AllServers == {"CS1", "CS2", "CS3"}

heartbeat_record_keeps_status(parts) ==
    [ip |-> parts[3], tcp_port |-> IntOf(parts[4]), last_seen |-> now,
     load |-> IntOf(parts[5]), num_files |-> IntOf(parts[6]),
     status |-> IF parts[2] \in DOMAIN servers THEN servers[parts[2]].status ELSE "alive"]

\* the record a well-formed HEARTBEAT stores
heartbeat_record(parts) ==
    [ip |-> parts[3], tcp_port |-> IntOf(parts[4]), last_seen |-> now,
     load |-> IntOf(parts[5]), num_files |-> IntOf(parts[6]), status |-> "alive"]

recovery_messages_server_up(parts) ==
    IF parts[2] \in DOMAIN servers /\ servers[parts[2]].status = "dead"
         /\ index_server_addr # NoAddr
    THEN <<[to |-> index_server_addr, message |-> <<"SERVER_UP", parts[2], Str(now)>>]>>
    ELSE <<>>

\* what the listener sends to the notification target on a heartbeat: nothing,
\* also when was_dead (the recovery is only logged)
recovery_messages(parts) == <<>>

\* what the listener does with a datagram: the record is stored, the datagram
\* is ignored (too few tokens), or int() raises and the error is logged
heartbeat_outcome(parts) ==
    IF Len(parts) < 6 THEN "ignored"
    ELSE IF IsInt(parts[4]) /\ IsInt(parts[5]) /\ IsInt(parts[6]) THEN "stored"
    ELSE "error"

\* the ValueError of int() leaves the loop of the listener with servers_lock
\* still held
HeartbeatErrorEscapes(parts) ==
    /\ u_pc = "recvfrom"
    /\ startswith(parts[1], "HEARTBEAT")
    /\ IF heartbeat_outcome(parts) = "ignored"
       THEN UNCHANGED <<servers, srv_order, servers_lock, outbox, flips, attempts, u_pc>>
       ELSE /\ servers_lock = "free"
            /\ IF heartbeat_outcome(parts) = "stored"
               THEN /\ servers' = DictSet(servers, parts[2], heartbeat_record(parts))
                    /\ srv_order' = OrderSet(srv_order, servers, parts[2])
                    /\ outbox' = outbox \o recovery_messages(parts)
                    /\ flips' = [flips EXCEPT ![parts[2]] = 0]
                    /\ attempts' = [attempts EXCEPT ![parts[2]] = 0]
                    /\ UNCHANGED <<servers_lock, u_pc>>
               ELSE /\ servers_lock' = "listener"
                    /\ u_pc' = "stopped"
                    /\ UNCHANGED <<servers, srv_order, outbox, flips, attempts>>
    /\ UNCHANGED <<conn_vars, now, cs_vars, reg_vars, x_vars, idx_vars, cl_vars,
                   index_server_addr, index_server_lock, chk_vars>>

\* one datagram HEARTBEAT <id> <ip> <tcp_port> <load> <num_files> is received
\* by the listener; a ValueError of int() leaves the `with` (the lock is
\* released) and is logged by the except inside the loop
Heartbeat(parts) ==
    /\ u_pc = "recvfrom"
    /\ startswith(parts[1], "HEARTBEAT")
    /\ IF heartbeat_outcome(parts) = "ignored"
       THEN UNCHANGED <<servers, srv_order, outbox, flips, attempts>>
       ELSE /\ servers_lock = "free"
            /\ IF heartbeat_outcome(parts) = "stored"
               THEN /\ servers' = DictSet(servers, parts[2], heartbeat_record(parts))
                    /\ srv_order' = OrderSet(srv_order, servers, parts[2])
                    /\ outbox' = outbox \o recovery_messages(parts)
                    /\ flips' = [flips EXCEPT ![parts[2]] = 0]
                    /\ attempts' = [attempts EXCEPT ![parts[2]] = 0]
               ELSE UNCHANGED <<servers, srv_order, outbox, flips, attempts>>
    /\ UNCHANGED <<conn_vars, now, cs_vars, reg_vars, x_vars, u_pc, idx_vars, cl_vars,
                   servers_lock, index_server_addr, index_server_lock, chk_vars>>

\* time.sleep(2) returns; current_time = time.time()
SweepWake ==
    /\ h_pc = "sleep"
    /\ now >= wake_at
    /\ current_time' = now
    /\ h_pc' = "acquire"
    /\ UNCHANGED <<conn_vars, now, peer_vars, idx_vars, cl_vars, mon_vars, wake_at, h_iter, h_notify, outbox,
                   hist_vars>>

\* `with servers_lock:` is entered and the iteration over servers.items() starts
SweepAcquire ==
    /\ h_pc = "acquire"
    /\ servers_lock = "free"
    /\ servers_lock' = "checker"
    /\ h_iter' = 1
    /\ h_pc' = "scan"
    /\ UNCHANGED <<conn_vars, now, peer_vars, idx_vars, cl_vars, servers, srv_order, index_server_addr,
                   index_server_lock, current_time, wake_at, h_notify, outbox, hist_vars>>

is_timed_out_any_status(info) == current_time - info.last_seen > HEARTBEAT_TIMEOUT

is_timed_out_at_timeout(info) ==
    info.status = "alive" /\ current_time - info.last_seen >= HEARTBEAT_TIMEOUT

is_timed_out_after_two_sweeps(info) ==
    info.status = "alive" /\ current_time - info.last_seen > 2 * SWEEP_PERIOD

\* the two tests of the sweep on one record
is_timed_out(info) ==
    info.status = "alive" /\ current_time - info.last_seen > HEARTBEAT_TIMEOUT

\* one item of servers.items() under servers_lock: a stale alive record is
\* flipped and notify_index_server_failure is called with servers_lock held;
\* after the last item the lock is released and the thread sleeps
SweepVisit ==
    /\ h_pc = "scan"
    /\ IF h_iter > Len(srv_order)
       THEN /\ servers_lock' = "free"
            /\ h_pc' = "sleep"
            /\ wake_at' = now + SWEEP_PERIOD
            /\ h_iter' = 0
            /\ UNCHANGED <<servers, index_server_lock, h_notify, hist_vars>>
       ELSE LET server_id == srv_order[h_iter]
            IN  IF is_timed_out(servers[server_id])
                THEN /\ servers' = [servers EXCEPT ![server_id].status = "dead"]
                     /\ flips' = [flips EXCEPT ![server_id] = @ + 1]
                     /\ IF index_server_addr # NoAddr
                        THEN \* with index_server_lock: socket, connect ...
                             /\ index_server_lock = "free"
                             /\ index_server_lock' = "checker"
                             /\ h_pc' = "notify"
                             /\ h_notify' = server_id
                             /\ attempts' = [attempts EXCEPT ![server_id] = @ + 1]
                             /\ UNCHANGED h_iter
                        ELSE /\ h_iter' = h_iter + 1
                             /\ UNCHANGED <<index_server_lock, h_pc, h_notify, attempts>>
                     /\ UNCHANGED <<servers_lock, wake_at>>
                ELSE /\ h_iter' = h_iter + 1
                     /\ UNCHANGED <<servers, servers_lock, index_server_lock, h_pc,
                                    wake_at, h_notify, hist_vars>>
    /\ UNCHANGED <<conn_vars, now, peer_vars, idx_vars, cl_vars, srv_order, index_server_addr, current_time,
                   outbox>>

\* a failed delivery puts the record back to alive, to be tried again by the
\* next sweep
NotifyEndRollsBack(delivered) ==
    /\ h_pc = "notify"
    /\ outbox' = IF delivered
                 THEN Append(outbox, [to |-> index_server_addr,
                                      message |-> <<"SERVER_DOWN", h_notify, Str(now)>>])
                 ELSE outbox
    /\ servers' = IF delivered THEN servers
                  ELSE [servers EXCEPT ![h_notify].status = "alive"]
    /\ index_server_lock' = "free"
    /\ h_notify' = None
    /\ h_iter' = h_iter + 1
    /\ h_pc' = "scan"
    /\ UNCHANGED <<conn_vars, now, peer_vars, idx_vars, cl_vars, srv_order, servers_lock,
                   index_server_addr, current_time, wake_at, hist_vars>>

\* connect/sendall to the target ends: delivered, or an exception that is
\* logged; index_server_lock is released and the sweep goes on
NotifyEnd(delivered) ==
    /\ h_pc = "notify"
    /\ outbox' = IF delivered
                 THEN Append(outbox, [to |-> index_server_addr,
                                      message |-> <<"SERVER_DOWN", h_notify, Str(now)>>])
                 ELSE outbox
    /\ index_server_lock' = "free"
    /\ h_notify' = None
    /\ h_iter' = h_iter + 1
    /\ h_pc' = "scan"
    /\ UNCHANGED <<conn_vars, now, peer_vars, idx_vars, cl_vars, servers, srv_order, servers_lock,
                   index_server_addr, current_time, wake_at, hist_vars>>

notification_target_first_wins(parts) ==
    IF index_server_addr # NoAddr THEN index_server_addr
    ELSE <<parts[2], IntOf(parts[3])>>

\* index_server_addr = (index_ip, index_port)
notification_target(parts) == <<parts[2], IntOf(parts[3])>>

\* a registration is answered by a SERVER_DOWN for every record that is dead
RegisterIndexReplaysDown(parts) ==
    /\ startswith(parts[1], "REGISTER_INDEX")
    /\ IF Len(parts) >= 3
       THEN IF IsInt(parts[3])
            THEN /\ index_server_lock = "free"
                 /\ index_server_addr' = notification_target(parts)
                 /\ m_reply' = Reply("OK INDEX_REGISTERED")
                 /\ m_open' = TRUE
                 /\ outbox' = outbox \o
                        [i \in 1..Len(SelectSeq(srv_order, LAMBDA s : servers[s].status = "dead")) |->
                            [to |-> notification_target(parts),
                             message |-> <<"SERVER_DOWN",
                                           SelectSeq(srv_order,
                                                     LAMBDA s : servers[s].status = "dead")[i],
                                           Str(now)>>]]
            ELSE /\ m_reply' = NoReply
                 /\ m_open' = FALSE
                 /\ UNCHANGED <<index_server_addr, outbox>>
       ELSE /\ m_reply' = Reply("ERROR INVALID_FORMAT")
            /\ m_open' = TRUE
            /\ UNCHANGED <<index_server_addr, outbox>>
    /\ UNCHANGED <<r_reply, now, peer_vars, idx_vars, cl_vars, servers, srv_order, servers_lock,
                   index_server_lock, chk_vars, hist_vars>>

\* REGISTER_INDEX <ip> <port> on the Monitor's TCP port, on the open
\* connection or on a newly accepted one; a ValueError of int() is logged by
\* the handler's except and the connection is closed without a reply
RegisterIndex(parts) ==
    /\ startswith(parts[1], "REGISTER_INDEX")
    /\ IF Len(parts) >= 3
       THEN IF IsInt(parts[3])
            THEN /\ index_server_lock = "free"
                 /\ index_server_addr' = notification_target(parts)
                 /\ m_reply' = Reply("OK INDEX_REGISTERED")
                 /\ m_open' = TRUE
            ELSE /\ m_reply' = NoReply
                 /\ m_open' = FALSE
                 /\ UNCHANGED index_server_addr
       ELSE /\ m_reply' = Reply("ERROR INVALID_FORMAT")
            /\ m_open' = TRUE
            /\ UNCHANGED index_server_addr
    /\ UNCHANGED <<r_reply, now, peer_vars, idx_vars, cl_vars, servers, srv_order, servers_lock,
                   index_server_lock, chk_vars, outbox, hist_vars>>

\* the reply to LIST_SERVERS, built under servers_lock
ListServersResponse ==
    [i \in 1..Len(srv_order) |->
        LET info == servers[srv_order[i]]
        IN  <<"SERVER", srv_order[i], info.ip, Str(info.tcp_port), Str(info.load),
              info.status>>]

\* a command other than REGISTER_INDEX on the Monitor's open TCP connection:
\* LIST_SERVERS, PING, anything else
MonitorRequest(message) ==
    /\ m_open
    /\ ~startswith(message[1], "REGISTER_INDEX")
    /\ IF message = <<"LIST_SERVERS">>
       THEN /\ servers_lock = "free"
            /\ m_reply' = ListReply(ListServersResponse)
       ELSE IF message = <<"PING">>
       THEN m_reply' = Reply("PONG")
       ELSE m_reply' = Reply("ERROR UNKNOWN_COMMAND")
    /\ UNCHANGED <<r_reply, m_open, now, peer_vars, idx_vars, cl_vars, mon_vars, chk_vars, outbox,
                   hist_vars>>

\* tcp_server accepts a connection after the previous one was closed
MonitorAccept ==
    /\ ~m_open
    /\ m_open' = TRUE
    /\ m_reply' = NoReply
    /\ UNCHANGED <<r_reply, now, peer_vars, idx_vars, cl_vars, mon_vars, chk_vars, outbox, hist_vars>>

\* time passes
Tick(d, limit) ==
    /\ now + d <= limit
    /\ now' = now + d
    /\ UNCHANGED <<conn_vars, peer_vars, idx_vars, cl_vars, mon_vars, chk_vars, outbox, hist_vars>>

(***************************************************************************)
(* Initial state and inputs                                                *)
(***************************************************************************)
MaxTime == 24

IndexMaxTime == 4

TickLen == 4

EmptyDict == [x \in {} |-> None]

\* bind(('0.0.0.0', TCP_PORT + 1)), announced as REGISTER_INDEX localhost 5001
IndexNotifyAddr == <<"localhost", 5001>>

T7001 == <<"7", "0", "0", "1">>

T7002 == <<"7", "0", "0", "2">>

T7101 == <<"7", "1", "0", "1">>

T7102 == <<"7", "1", "0", "2">>

InitClient ==
    /\ c_pc = [h \in Clients |-> "recv"]
    /\ c_file = [h \in Clients |-> None]
    /\ c_response = [h \in Clients |-> <<>>]
    /\ c_refreshed = [h \in Clients |-> None]
    /\ c_server = [h \in Clients |-> NoServer]
    /\ c_size = [h \in Clients |-> 0]
    /\ c_iter = [h \in Clients |-> NoIter]
    /\ c_reply = [h \in Clients |-> NoReply]
    /\ c_open = [h \in Clients |-> TRUE]
    /\ c_sel = [h \in Clients |-> None]

\* CS1 is constructed and has scanned its directory; no connection exists
InitPeer ==
    /\ u_pc = "recvfrom"
    /\ u_last = None
    /\ s_pc = "connect"
    /\ s_file = 1
    /\ s_result = None
    /\ s_calls = 0
    /\ s_responses = <<>>
    /\ t_listening = FALSE
    /\ e_pc = "off"
    /\ e_wake = 0
    /\ e_failed = FALSE
    /\ g_open = "none"
    /\ g_sent = 0
    /\ g_rcvd = 0
    /\ g_lines = <<>>
    /\ g_replies = <<>>
    /\ x_pc = "none"
    /\ x_reply = <<>>
    /\ x_inbox = <<>>
    /\ active_clients = 0
    /\ y_pc = "none"

InitMonitor ==
    /\ servers = EmptyDict
    /\ srv_order = <<>>
    /\ servers_lock = "free"
    /\ index_server_addr = NoAddr
    /\ index_server_lock = "free"
    /\ h_pc = "sleep"
    /\ current_time = 0
    /\ wake_at = SWEEP_PERIOD
    /\ h_iter = 0
    /\ h_notify = None
    /\ outbox = <<>>
    /\ flips = [s \in AllServers |-> 0]
    /\ attempts = [s \in AllServers |-> 0]
    /\ m_reply = NoReply
    /\ m_open = FALSE

Init ==
    /\ now = 0
    /\ content_servers = EmptyDict
    /\ cs_order = <<>>
    /\ file_index = EmptyDict
    /\ fi_order = <<>>
    /\ data_lock = "free"
    /\ InitClient
    /\ r_reply = None
    /\ InitMonitor
    /\ InitPeer

(***************************************************************************)
(* The Index Server with its peers as environment: content servers send    *)
(* registration commands, the Monitor answers LIST_SERVERS with any report *)
(* or not at all, and SERVER_DOWN notifications arrive.                    *)
(***************************************************************************)
IndexServers == {"CS1", "CS2"}

\* each content server announces its own TCP port
RegisterMsgs == {<<"REGISTER", "CS1", T7001, T7002>>, <<"REGISTER", "CS2", T7101, T7102>>}

AddFileMsgs ==
    {<<"ADD_FILE", s, "a.txt", sz>> :
        s \in IndexServers, sz \in {<<"1", "0", "0">>, <<"2", "5">>, <<"1", "0", "0", "k">>}}

UpdateLoadMsgs == {<<"UPDATE_LOAD", s, <<"1">>>> : s \in IndexServers}

DownMsgs == {<<"SERVER_DOWN", s, <<"0">>>> : s \in IndexServers}

ClientMsgs == {<<"GET", "a.txt">>, <<"GET", "b.txt">>, <<"GET">>, <<"HELLO">>, <<"QUIT">>}

ReportLine(s, status) ==
    <<"SERVER", s, "localhost", IF s = "CS1" THEN T7001 ELSE T7101, <<"1">>, status>>

Reports ==
    {<<>>}
    \cup {<<ReportLine(s, st)>> : s \in IndexServers, st \in {"alive", "dead"}}
    \cup {<<ReportLine("CS1", st1), ReportLine("CS2", st2)>> :
            st1 \in {"alive", "dead"}, st2 \in {"alive", "dead"}}

RegisterCmd == \E parts \in RegisterMsgs : Register(parts, "127.0.0.1")

AddFileCmd == \E parts \in AddFileMsgs : AddFile(parts)

UpdateLoadCmd == \E parts \in UpdateLoadMsgs : UpdateLoad(parts)

ServerDownArrives == \E m \in DownMsgs : Notification(m) /\ UNCHANGED outbox

ClientSends == \E h \in Clients, m \in ClientMsgs : ClientRequest(h, m)

MonitorReplies == \E h \in Clients, r \in Reports : RefreshReply(h, r)

MonitorUnreachable == \E h \in Clients : RefreshFail(h)

ClientMergeLock == \E h \in Clients : MergeLock(h)

ClientMerge == \E h \in Clients : Merge(h)

ClientSelect == \E h \in Clients : Select(h)

ClientLookup == \E h \in Clients : Lookup(h)

IndexTick == Tick(TickLen, IndexMaxTime)

NextIndex ==
    \/ RegisterCmd
    \/ AddFileCmd
    \/ ServerDownArrives
    \/ ClientSends
    \/ MonitorReplies
    \/ MonitorUnreachable
    \/ ClientMergeLock
    \/ ClientMerge
    \/ ClientSelect
    \/ ClientLookup
    \/ IndexTick

SpecIndex == Init /\ [][NextIndex]_vars

(***************************************************************************)
(* The Monitor with its peers as environment: content servers send         *)
(* heartbeats, the Index Server registers its notification listener and    *)
(* accepts the notifications sent to it.                                   *)
(***************************************************************************)
MonitorServers == {"CS1", "CS2"}

HeartbeatMsgs ==
    {<<"HEARTBEAT", s, "localhost", IF s = "CS1" THEN T7001 ELSE T7101, <<"0">>, nf>> :
        s \in MonitorServers, nf \in {<<"3">>, <<"n", "a">>}}

RegisterIndexMsgs ==
    {<<"REGISTER_INDEX", "localhost", <<"5", "0", "0", "1">>>>,
     <<"REGISTER_INDEX", "localhost", <<"5", "0", "0", "1", "/", "t", "c", "p">>>>}

HeartbeatArrives == \E parts \in HeartbeatMsgs : Heartbeat(parts) /\ UNCHANGED <<e_vars, u_last>>

IndexRegisters == \E parts \in RegisterIndexMsgs : RegisterIndex(parts)

NotifyEnds == \E delivered \in BOOLEAN : NotifyEnd(delivered)

\* notification_listener accepts the oldest pending connection
IndexAccepts ==
    /\ outbox # <<>>
    /\ Head(outbox).to = IndexNotifyAddr
    /\ Notification(Head(outbox).message)
    /\ outbox' = Tail(outbox)

MonitorTick == Tick(TickLen, MaxTime)

NextMonitor ==
    \/ HeartbeatArrives
    \/ SweepWake
    \/ SweepAcquire
    \/ SweepVisit
    \/ NotifyEnds
    \/ IndexRegisters
    \/ IndexAccepts
    \/ MonitorTick

SpecMonitor == Init /\ [][NextMonitor]_vars

(***************************************************************************)
(* select_best_server on every registry over three servers: a handler is   *)
(* about to call it for a.txt                                              *)
(***************************************************************************)
SelectLoads == {1, 3, 5}

\* the size each server announced in its ADD_FILE
AnnouncedSize(s) == CASE s = "CS1" -> 100 [] s = "CS2" -> 250 [] OTHER -> 4096

SelectRecords ==
    [ip : {"127.0.0.1"}, tcp_port : {7001}, udp_port : {7002}, load : SelectLoads,
     last_update : {0}, status : {"alive", "dead"}]

\* sequences of distinct server ids
HostOrders ==
    UNION {{o \in [1..n -> AllServers] : \A i, j \in 1..n : i # j => o[i] # o[j]} :
             n \in 0..Cardinality(AllServers)}

InitSelect ==
    /\ now = 0
    /\ content_servers \in UNION {[S -> SelectRecords] : S \in SUBSET AllServers}
    /\ cs_order \in {o \in HostOrders : {o[i] : i \in 1..Len(o)} = DOMAIN content_servers}
    /\ file_index \in
         {EmptyDict}
         \cup {[f \in {"a.txt"} |-> [i \in 1..Len(o) |-> <<o[i], AnnouncedSize(o[i])>>]] :
                 o \in HostOrders}
    /\ fi_order = IF file_index = EmptyDict THEN <<>> ELSE <<"a.txt">>
    /\ data_lock = "free"
    /\ InitClient
    /\ r_reply = None
    /\ InitMonitor
    /\ InitPeer

ClientArrives == \E h \in Clients : ClientRequest(h, <<"GET", "a.txt">>)

NextSelect ==
    \/ ClientArrives
    \/ MonitorUnreachable
    \/ ClientSelect

SpecSelect == InitSelect /\ [][NextSelect]_vars

(***************************************************************************)
(* Properties of the selection (SpecSelect: the registry does not change   *)
(* after the call, so the result is compared with the registry it read)    *)
(***************************************************************************)
Entries(f) ==
    IF f \in DOMAIN file_index
    THEN {file_index[f][i] : i \in 1..Len(file_index[f])}
    ELSE {}

HostsOf(f) == {e[1] : e \in Entries(f)}

AliveHostsOf(f) ==
    {s \in HostsOf(f) : s \in DOMAIN content_servers /\ content_servers[s].status = "alive"}

\* select_best_server has returned to handler h
SelectReturned(h) == c_refreshed[h] # None /\ c_pc[h] \in {"lookup", "recv"}

ReturnedServer(h) == c_pc[h] = "lookup"

ReturnedNotFound(h) == c_pc[h] = "recv" /\ c_reply[h].kind = "ERROR FILE_NOT_FOUND"

\* C1: when some host of f is registered and alive, select_best_server(f)
\* returns a registered alive host of f whose load is at most the load of every
\* registered alive host of f, with the size that host announced for f.
C1_LoadBasedSelection ==
    \A h \in Clients :
        SelectReturned(h) /\ AliveHostsOf(c_file[h]) # {} =>
            /\ ReturnedServer(h)
            /\ c_server[h].ref \in AliveHostsOf(c_file[h])
            /\ \A s \in AliveHostsOf(c_file[h]) :
                   content_servers[c_server[h].ref].load <= content_servers[s].load
            /\ <<c_server[h].ref, c_size[h]>> \in Entries(c_file[h])

\* three alive hosts with loads 3, 1, 5: the host with load 1 is returned
C1_Witness ==
    \E h \in Clients :
        /\ ReturnedServer(h)
        /\ file_index[c_file[h]] = <<<<"CS1", 100>>, <<"CS2", 250>>, <<"CS3", 4096>>>>
        /\ DOMAIN content_servers = AllServers
        /\ \A s \in AllServers : content_servers[s].status = "alive"
        /\ content_servers["CS1"].load = 3
        /\ content_servers["CS2"].load = 1
        /\ content_servers["CS3"].load = 5
        /\ c_server[h].ref = "CS2"
        /\ c_size[h] = 250

\* C2: select_best_server never returns a server that is dead or not in the
\* registry, and returns NOT_FOUND exactly when f has no host that is both
\* registered and alive.
C2_DeadHostExclusion ==
    \A h \in Clients :
        SelectReturned(h) =>
            /\ ReturnedServer(h) =>
                   /\ c_server[h].ref \in DOMAIN content_servers
                   /\ content_servers[c_server[h].ref].status = "alive"
                   /\ c_server[h].ref \in HostsOf(c_file[h])
            /\ ReturnedNotFound(h) <=> AliveHostsOf(c_file[h]) = {}
            /\ ReturnedServer(h) \/ ReturnedNotFound(h)

\* host entries exist, one dead and one never registered: NOT_FOUND
C2_Witness ==
    \E h \in Clients :
        /\ ReturnedNotFound(h)
        /\ HostsOf(c_file[h]) = {"CS1", "CS3"}
        /\ DOMAIN content_servers = {"CS1", "CS2"}
        /\ content_servers["CS1"].status = "dead"
        /\ content_servers["CS2"].status = "alive"

(***************************************************************************)
(* Properties of the Index Server under concurrency (SpecIndex)            *)
(***************************************************************************)
UniqueHosts ==
    \A f \in DOMAIN file_index :
        \A i, j \in 1..Len(file_index[f]) :
            i # j => file_index[f][i][1] # file_index[f][j][1]

DuplicateAddIsNoOp ==
    \A parts \in AddFileMsgs :
        parts[2] \in HostsOf(parts[3]) =>
            add_file(file_index, parts[2], parts[3], parts[4]) = file_index

\* C3: the host list of every file holds at most one entry per server_id, and
\* an ADD_FILE for a (file_name, server_id) pair already present leaves the
\* file index unchanged, whatever size it carries.
C3_FileIndexUniqueness == UniqueHosts /\ DuplicateAddIsNoOp

\* both servers announced a.txt, with different sizes
C3_Witness ==
    /\ "a.txt" \in DOMAIN file_index
    /\ file_index["a.txt"] = <<<<"CS1", 100>>, <<"CS2", 25>>>>

\* C6: when the health refresh failed (it returned False), the handler still
\* answers the GET with SERVER or ERROR FILE_NOT_FOUND and the connection
\* stays open.
C6_UnreachableMonitorDegrades ==
    \A h \in Clients :
        c_refreshed[h] = "False" =>
            /\ c_open[h]
            /\ c_pc[h] \in {"select", "lookup", "recv"}
            /\ c_pc[h] = "recv" => c_reply[h].kind \in {"SERVER", "ERROR FILE_NOT_FOUND"}

\* C7: a SERVER reply names the selected server, which is registered and hosts
\* the file, with that server's ip and tcp_port and the size it announced; the
\* handler never answers 'unknown' and never ends a GET without a reply.
C7_ReplyNamesSelectedHost ==
    \A h \in Clients :
        /\ c_reply[h].kind = "SERVER" =>
               /\ c_reply[h].id # "unknown"
               /\ c_reply[h].id = c_sel[h]
               /\ c_reply[h].id \in DOMAIN content_servers
               /\ <<c_reply[h].id, c_reply[h].size>> \in Entries(c_file[h])
               /\ c_reply[h].ip = content_servers[c_reply[h].id].ip
               /\ c_reply[h].port = content_servers[c_reply[h].id].tcp_port
        /\ c_open[h]

\* a registry mutation by REGISTER, ADD_FILE or SERVER_DOWN takes effect
StoreMutation ==
    /\ RegisterCmd \/ AddFileCmd \/ ServerDownArrives
    /\ <<content_servers, file_index>>' # <<content_servers, file_index>>

\* C8: between the merge of the Monitor's report and the select_best_server of
\* the same GET no REGISTER, ADD_FILE or SERVER_DOWN takes effect.
C8_RefreshSelectAtomic ==
    [][\A h \in Clients :
          c_pc[h] = "select" /\ c_refreshed[h] = "True" => ~StoreMutation]_vars

\* C10: data_lock is held by a handler only for the merge of the received
\* report, never during connect/send/recv of LIST_SERVERS, so the lock is free
\* for REGISTER, ADD_FILE and SERVER_DOWN while a refresh waits on the Monitor.
C10_RefreshCallOutsideLock ==
    /\ data_lock \in {"free"} \cup Clients
    /\ \A h \in Clients :
           /\ data_lock = h <=> c_pc[h] = "merge"
           /\ c_pc[h] = "refresh" => data_lock # h
    /\ (\A h \in Clients : c_pc[h] # "merge") => data_lock = "free"

\* a refresh is waiting on the Monitor after a REGISTER took the free lock
C10_Witness ==
    \E h \in Clients :
        /\ c_pc[h] = "refresh"
        /\ data_lock = "free"
        /\ "CS2" \in DOMAIN content_servers
        /\ now > 0
        /\ content_servers["CS2"].last_update = now

(***************************************************************************)
(* Properties of the Monitor (SpecMonitor)                                 *)
(***************************************************************************)
IsStatus(srv, s, status) == s \in DOMAIN srv /\ srv[s].status = status

\* the Liveness Checker flips s in this step
FlipsToDead(s) == IsStatus(servers, s, "alive") /\ IsStatus(servers', s, "dead")

\* since the last heartbeat of s: at most one flip, no attempt without a flip,
\* and s is dead exactly when it was flipped
OneFlipPerSilence ==
    \A s \in DOMAIN servers :
        /\ flips[s] <= 1
        /\ attempts[s] <= flips[s]
        /\ servers[s].status = "dead" <=> flips[s] = 1

\* a completed sweep leaves no record alive that was stale at its sampled time
SweepFlipsStale ==
    h_pc = "sleep" =>
        \A s \in DOMAIN servers :
            servers[s].status = "alive" =>
                current_time - servers[s].last_seen <= HEARTBEAT_TIMEOUT

\* a flip starts one delivery attempt when a target is registered and none
\* otherwise; no other step starts an attempt
AttemptOnFlipOnly ==
    \A s \in AllServers :
        IF FlipsToDead(s)
        THEN /\ flips'[s] = flips[s] + 1
             /\ attempts'[s] = attempts[s] + (IF index_server_addr # NoAddr THEN 1 ELSE 0)
             /\ index_server_addr # NoAddr => h_pc' = "notify" /\ h_notify' = s
        ELSE /\ attempts'[s] <= attempts[s]
             /\ flips'[s] <= flips[s]

\* C4: a server that stays silent past HEARTBEAT_TIMEOUT is flipped alive->dead
\* exactly once however many sweeps follow, with exactly one SERVER_DOWN
\* delivery attempt when a target is registered, and no attempt while it stays
\* dead.
C4_EdgeTriggeredTimeout ==
    /\ [](OneFlipPerSilence /\ SweepFlipsStale)
    /\ [][AttemptOnFlipOnly]_vars

\* CS1 was flipped with a target registered, the one attempt is over and a
\* later sweep has passed over the dead record
C4_Witness ==
    /\ IsStatus(servers, "CS1", "dead")
    /\ flips["CS1"] = 1
    /\ attempts["CS1"] = 1
    /\ index_server_addr # NoAddr
    /\ h_pc = "sleep"
    /\ current_time - servers["CS1"].last_seen > 2 * HEARTBEAT_TIMEOUT

\* a heartbeat brings s back in this step
Recovers(s) == IsStatus(servers, s, "dead") /\ IsStatus(servers', s, "alive")

\* a well-formed heartbeat for a dead server makes it alive
HeartbeatRevives ==
    \A parts \in HeartbeatMsgs :
        Heartbeat(parts) /\ IsInt(parts[6]) /\ IsStatus(servers, parts[2], "dead") =>
            Recovers(parts[2])

RecoveryIsSilent ==
    \A s \in AllServers :
        Recovers(s) =>
            /\ servers'[s].last_seen = now
            /\ outbox' = outbox
            /\ h_pc' = h_pc
            /\ attempts'[s] = 0

\* the only message sent is SERVER_DOWN, by the sweep, for the record it flipped
OnlyServerDownOnFlip ==
    outbox' # outbox /\ Len(outbox') >= Len(outbox) =>
        /\ h_pc = "notify"
        /\ IsStatus(servers, h_notify, "dead")
        /\ flips[h_notify] = 1
        /\ attempts[h_notify] = 1
        /\ \E ts \in 0..MaxTime :
               outbox' = Append(outbox, [to |-> index_server_addr,
                                         message |-> <<"SERVER_DOWN", h_notify, Str(ts)>>])

OutboxHoldsServerDown ==
    \A i \in 1..Len(outbox) : outbox[i].message[1] = "SERVER_DOWN"

\* C5: a HEARTBEAT for a dead server makes it alive with last_seen refreshed
\* and sends nothing to the notification target; SERVER_DOWN is the only
\* message the Monitor sends, and only for an alive->dead transition.
C5_RecoveryWithoutRenotification ==
    /\ []OutboxHoldsServerDown
    /\ [][HeartbeatRevives /\ RecoveryIsSilent /\ OnlyServerDownOnFlip]_vars

\* CS1 timed out, was notified once, and is alive again after a heartbeat
C5_Witness ==
    /\ IsStatus(servers, "CS1", "alive")
    /\ servers["CS1"].last_seen > HEARTBEAT_TIMEOUT
    /\ servers["CS1"].last_seen = now
    /\ index_server_addr # NoAddr
    /\ flips["CS1"] = 0
    /\ Len(outbox) = 1
    /\ outbox[1].message[2] = "CS1"

\* C9: servers_lock is not held while the Monitor connects or sends
\* SERVER_DOWN to the notification target.
C9_NotifyOutsideStoreLock == h_pc = "notify" => servers_lock = "free"

\* a datagram of the wire format HEARTBEAT <id> <ip> <tcp_port> <load> <num_files>
WellFormedHeartbeat(parts) ==
    /\ Len(parts) = 6
    /\ parts[1] = "HEARTBEAT"
    /\ IsInt(parts[4]) /\ IsInt(parts[5]) /\ IsInt(parts[6])

\* a well-formed heartbeat of s is handled in this step
HeardNow(s) ==
    \E parts \in HeartbeatMsgs :
        parts[2] = s /\ WellFormedHeartbeat(parts) /\ Heartbeat(parts)

\* the sweep is at the record of s, which is alive and stale
SweepTimesOut(s) ==
    /\ h_pc = "scan"
    /\ servers_lock = "checker"
    /\ h_iter \in 1..Len(srv_order)
    /\ srv_order[h_iter] = s
    /\ servers[s].status = "alive"
    /\ current_time - servers[s].last_seen > HEARTBEAT_TIMEOUT

MonitorStatusValues ==
    /\ DOMAIN servers \subseteq AllServers
    /\ \A s \in DOMAIN servers : servers[s].status \in {"alive", "dead"}
    /\ {srv_order[i] : i \in 1..Len(srv_order)} = DOMAIN servers

MonitorStateMachine ==
    \A s \in AllServers :
        /\ s \in DOMAIN servers => s \in DOMAIN servers'
        /\ s \notin DOMAIN servers /\ s \in DOMAIN servers' => HeardNow(s)
        /\ HeardNow(s) => IsStatus(servers', s, "alive") /\ servers'[s].last_seen = now
        /\ FlipsToDead(s) =>
              /\ SweepTimesOut(s)
              /\ servers' = [servers EXCEPT ![s].status = "dead"]
        /\ Recovers(s) => HeardNow(s)

PropMaxTime == 16

InitPropagate ==
    /\ now = 0
    /\ content_servers =
         [s \in {"CS1"} |-> register_record(<<"REGISTER", "CS1", T7001, T7002>>, "127.0.0.1")]
    /\ cs_order = <<"CS1">>
    /\ file_index = [f \in {"a.txt"} |-> <<<<"CS1", 100>>>>]
    /\ fi_order = <<"a.txt">>
    /\ data_lock = "free"
    /\ InitClient
    /\ r_reply = "OK REGISTERED"
    /\ servers =
         [s \in {"CS1"} |->
            heartbeat_record(<<"HEARTBEAT", "CS1", "localhost", T7001, <<"0">>, <<"1">>>>)]
    /\ srv_order = <<"CS1">>
    /\ servers_lock = "free"
    /\ index_server_addr = IndexNotifyAddr
    /\ index_server_lock = "free"
    /\ h_pc = "sleep"
    /\ current_time = 0
    /\ wake_at = SWEEP_PERIOD
    /\ h_iter = 0
    /\ h_notify = None
    /\ outbox = <<>>
    /\ flips = [s \in AllServers |-> 0]
    /\ attempts = [s \in AllServers |-> 0]
    /\ m_reply = Reply("OK INDEX_REGISTERED")
    /\ m_open = TRUE
    /\ InitPeer

\* the Monitor's handler builds the reply under servers_lock and sends it
MonitorAnswers ==
    \E h \in Clients : servers_lock = "free" /\ RefreshReply(h, ListServersResponse)

NotifyDelivered == NotifyEnd(TRUE)

\* the sweep's steps run within one unit of the clock
PropTick == h_pc = "sleep" /\ Tick(TickLen, PropMaxTime)

NextPropagate ==
    \/ ClientArrives
    \/ MonitorAnswers
    \/ MonitorUnreachable
    \/ ClientMergeLock
    \/ ClientMerge
    \/ ClientSelect
    \/ ClientLookup
    \/ SweepWake
    \/ SweepAcquire
    \/ SweepVisit
    \/ NotifyDelivered
    \/ IndexAccepts
    \/ PropTick

\* every thread that can run does run, and a lock that is free again and
\* again is eventually acquired; the clients are not obliged to send
FairPropagate ==
    /\ SF_vars(MonitorAnswers \/ MonitorUnreachable)
    /\ SF_vars(ClientMergeLock)
    /\ SF_vars(ClientMerge)
    /\ SF_vars(ClientSelect)
    /\ SF_vars(ClientLookup)
    /\ SF_vars(SweepWake)
    /\ SF_vars(SweepAcquire)
    /\ SF_vars(SweepVisit)
    /\ SF_vars(NotifyDelivered)
    /\ SF_vars(IndexAccepts)
    /\ SF_vars(PropTick)

SpecPropagate == InitPropagate /\ [][NextPropagate]_vars /\ FairPropagate

\* a GET handler holds the record of s as the server it is about to return
Returning(s) == \E h \in Clients : c_pc[h] = "lookup" /\ c_sel[h] = s

\* C12: once CS1 is silent for good, the Monitor eventually holds it dead, and
\* with its SERVER_DOWN delivered (or the Monitor answering the refreshes) the
\* Index Server from some point on never returns CS1 to a GET.
C12_EventualFailurePropagation ==
    /\ <>[]IsStatus(servers, "CS1", "dead")
    /\ <>[]~Returning("CS1")

(***************************************************************************)
(* The registry store under every command that reaches it: lines on the    *)
(* registration connections, SERVER_DOWN notifications and the refresh of  *)
(* a GET, with records that differ in ports, load, status and last_update  *)
(***************************************************************************)
StoreIp == "127.0.0.1"

\* CS1 also registers again on other ports
StoreRegisterMsgs == RegisterMsgs \cup {<<"REGISTER", "CS1", T7101, T7102>>}

\* CS1 also announces a.txt again with another size
StoreAddFileMsgs ==
    {<<"ADD_FILE", s, "a.txt", <<"1", "0", "0">>>> : s \in IndexServers}
    \cup {<<"ADD_FILE", "CS1", "a.txt", <<"2", "5">>>>}

\* SERVER_DOWN for the registered ids and for an id that never registers
StoreDownMsgs == DownMsgs \cup {<<"SERVER_DOWN", "CS3", <<"0">>>>}

StoreRegisterCmd == \E parts \in StoreRegisterMsgs : Register(parts, StoreIp)

StoreAddFileCmd == \E parts \in StoreAddFileMsgs : AddFile(parts)

StoreDownArrives == \E m \in StoreDownMsgs : Notification(m) /\ UNCHANGED outbox

\* the clients ask for a file no server announces: every GET refreshes the
\* registry and is answered ERROR FILE_NOT_FOUND
StoreClientArrives == \E h \in Clients : ClientRequest(h, <<"GET", "b.txt">>)

NextStore ==
    \/ StoreRegisterCmd
    \/ StoreAddFileCmd
    \/ UpdateLoadCmd
    \/ StoreDownArrives
    \/ StoreClientArrives
    \/ MonitorReplies
    \/ MonitorUnreachable
    \/ ClientMergeLock
    \/ ClientMerge
    \/ ClientSelect
    \/ IndexTick

SpecStore == Init /\ [][NextStore]_vars

(***************************************************************************)
(* Properties of the registry store (SpecStore)                            *)
(***************************************************************************)
\* the records of all ids but s are the same before and after the step
OthersUnchanged(s) ==
    /\ DOMAIN content_servers' \ {s} = DOMAIN content_servers \ {s}
    /\ \A o \in DOMAIN content_servers \ {s} : content_servers'[o] = content_servers[o]

\* s is a key of the registry, once in its order
OneRecord(s) ==
    /\ s \in DOMAIN content_servers'
    /\ Cardinality({i \in 1..Len(cs_order') : cs_order'[i] = s}) = 1
    /\ Len(cs_order') = Cardinality(DOMAIN content_servers')

\* the step handles the well-formed REGISTER parts
RegisterUpserts(parts) ==
    Register(parts, StoreIp) =>
        /\ OneRecord(parts[2])
        /\ LET r == content_servers'[parts[2]]
           IN  /\ r.load = 0
               /\ r.status = "alive"
               /\ r.ip = StoreIp
               /\ Str(r.tcp_port) = parts[3]
               /\ Str(r.udp_port) = parts[4]
               /\ r.last_update = now
        /\ OthersUnchanged(parts[2])
        /\ file_index' = file_index /\ fi_order' = fi_order
        /\ r_reply' = "OK REGISTERED"

\* the same REGISTER twice in a row: the second changes last_update at most
RegisterTwice(parts) ==
    /\ Register(parts, StoreIp)
    /\ parts[2] \in DOMAIN content_servers
    /\ \E t \in 0..now : content_servers[parts[2]] =
           [ip |-> StoreIp, tcp_port |-> IntOf(parts[3]), udp_port |-> IntOf(parts[4]),
            load |-> 0, last_update |-> t, status |-> "alive"]
    => /\ content_servers' = [content_servers EXCEPT ![parts[2]].last_update = now]
       /\ cs_order' = cs_order

\* C13: a well-formed REGISTER leaves exactly one record for its id, with load
\* 0, status alive, the peer's ip and the announced ports, whatever the record
\* was before; repeated, it changes last_update at most; it changes no other
\* record and no file-index entry.
C13_RegisterIsOverwritingUpsert ==
    [][\A parts \in StoreRegisterMsgs : RegisterUpserts(parts) /\ RegisterTwice(parts)]_vars

\* CS1, once dead with load 1 on ports 7001/7002, has registered again on
\* ports 7101/7102 at a later time, with CS2 dead and a.txt announced
C13_Witness ==
    /\ "CS1" \in DOMAIN content_servers
    /\ content_servers["CS1"] =
         [ip |-> StoreIp, tcp_port |-> 7101, udp_port |-> 7102, load |-> 0,
          last_update |-> TickLen, status |-> "alive"]
    /\ IsStatus(content_servers, "CS2", "dead")
    /\ content_servers["CS2"].load = 1
    /\ "a.txt" \in DOMAIN file_index
    /\ r_reply = "OK REGISTERED"

\* every field of the record of s but its status is the same after the step
OnlyStatusChanges(s) ==
    content_servers' = [content_servers EXCEPT ![s].status = content_servers'[s].status]

MarkDeadFrame(m) ==
    Notification(m) =>
        /\ IF m[2] \in DOMAIN content_servers
           THEN /\ IsStatus(content_servers', m[2], "dead")
                /\ OnlyStatusChanges(m[2])
           ELSE /\ content_servers' = content_servers
                /\ m[2] \notin DOMAIN content_servers'
        /\ cs_order' = cs_order
        /\ file_index' = file_index /\ fi_order' = fi_order

\* C14: SERVER_DOWN <id> sets status dead on the record of <id> when it exists
\* and changes nothing else; for an id that is not registered the store is
\* unchanged and no record is created.
C14_MarkDeadFrame == [][\A m \in StoreDownMsgs : MarkDeadFrame(m)]_vars

\* SERVER_DOWN was handled for CS1, registered with load 1 and a.txt announced,
\* while CS3 never registered
C14_Witness ==
    /\ IsStatus(content_servers, "CS1", "dead")
    /\ content_servers["CS1"].load = 1
    /\ IsStatus(content_servers, "CS2", "alive")
    /\ "CS3" \notin DOMAIN content_servers
    /\ "a.txt" \in DOMAIN file_index

\* the step changes load or status of the existing record of s
LoadOrStatusWritten(s) ==
    /\ s \in DOMAIN content_servers
    /\ s \in DOMAIN content_servers'
    /\ \/ content_servers'[s].load # content_servers[s].load
       \/ content_servers'[s].status # content_servers[s].status

\* the step is the refresh merge, a SERVER_DOWN notification, or the REGISTER
\* that stores the record of s anew
AllowedStatusWriter(s) ==
    \/ \E h \in Clients : Merge(h)
    \/ \E m \in StoreDownMsgs : m[2] = s /\ Notification(m)
    \/ \E parts \in StoreRegisterMsgs : parts[2] = s /\ Register(parts, StoreIp)

\* C15: load and status of an existing record are changed only by the refresh
\* merge and by a SERVER_DOWN notification; no other command on an existing
\* record changes them.
C15_LoadStatusWriteSet ==
    [][\A s \in IndexServers : LoadOrStatusWritten(s) => AllowedStatusWriter(s)]_vars

\* the (server_id, size) entries of file f in the index fi
EntrySet(fi, f) == IF f \in DOMAIN fi THEN {fi[f][i] : i \in 1..Len(fi[f])} ELSE {}

\* the step removes no server id and no (file_name, server_id, size) entry
StoreGrows ==
    /\ DOMAIN content_servers \subseteq DOMAIN content_servers'
    /\ DOMAIN file_index \subseteq DOMAIN file_index'
    /\ \A f \in DOMAIN file_index : EntrySet(file_index, f) \subseteq EntrySet(file_index', f)

\* the reply to LIST_SERVERS has one line per record, with its status
AllListed ==
    /\ Len(list_servers_response) = Cardinality(DOMAIN content_servers)
    /\ \A s \in DOMAIN content_servers :
          \E i \in 1..Len(list_servers_response) :
              /\ list_servers_response[i][2] = s
              /\ list_servers_response[i][6] = content_servers[s].status

\* C16: no command, refresh, notification or query removes a server id from
\* the registry or an entry from the file index, and a dead server's record
\* is still listed by LIST_SERVERS, with status dead.
C16_StoreGrowsMonotonically == []AllListed /\ [][StoreGrows]_vars

\* after registrations, announcements, a load update, a notification and a
\* refreshed query: CS1 is dead and listed, a.txt has two hosts
C16_Witness ==
    /\ IsStatus(content_servers, "CS1", "dead")
    /\ IsStatus(content_servers, "CS2", "alive")
    /\ content_servers["CS2"].load = 1
    /\ Cardinality(Entries("a.txt")) = 2
    /\ c_refreshed["c1"] = "True"
    /\ c_reply["c1"].kind = "ERROR FILE_NOT_FOUND"
    /\ \E i \in 1..Len(list_servers_response) :
           list_servers_response[i][2] = "CS1" /\ list_servers_response[i][6] = "dead"

(***************************************************************************)
(* The notification target: listeners register on two ports, servers time  *)
(* out, and each listener accepts what was sent to it                      *)
(***************************************************************************)
TargetMaxTime == 12

T5001 == <<"5", "0", "0", "1">>

T5002 == <<"5", "0", "0", "2">>

TargetRegisterMsgs ==
    {<<"REGISTER_INDEX", "localhost", T5001>>, <<"REGISTER_INDEX", "localhost", T5002>>,
     <<"REGISTER_INDEX", "localhost", <<"5", "0", "0", "1", "/", "t", "c", "p">>>>}

TargetHeartbeatMsgs ==
    {<<"HEARTBEAT", "CS1", "localhost", T7001, <<"0">>, <<"3">>>>,
     <<"HEARTBEAT", "CS2", "localhost", T7101, <<"0">>, <<"3">>>>}

TargetHeartbeats == \E parts \in TargetHeartbeatMsgs : Heartbeat(parts) /\ UNCHANGED <<e_vars, u_last>>

TargetRegisters == \E parts \in TargetRegisterMsgs : RegisterIndex(parts)

\* the listener a SERVER_DOWN was sent to accepts it and closes
TargetAccepts ==
    /\ outbox # <<>>
    /\ outbox' = Tail(outbox)
    /\ UNCHANGED <<now, peer_vars, idx_vars, cl_vars, mon_vars, chk_vars, hist_vars, conn_vars>>

TargetTick == Tick(TickLen, TargetMaxTime)

NextTarget ==
    \/ TargetHeartbeats
    \/ TargetRegisters
    \/ SweepWake
    \/ SweepAcquire
    \/ SweepVisit
    \/ NotifyEnds
    \/ TargetAccepts
    \/ TargetTick

SpecTarget == Init /\ [][NextTarget]_vars

\* the targets that are announced
TargetAddrs == {<<"localhost", 5001>>, <<"localhost", 5002>>}

OneTarget == index_server_addr = NoAddr \/ index_server_addr \in TargetAddrs

\* the step handles a well-formed REGISTER_INDEX naming the target addr
RegistersTarget(addr) ==
    \E parts \in TargetRegisterMsgs :
        /\ IsInt(parts[3])
        /\ parts[2] = addr[1]
        /\ Str(addr[2]) = parts[3]
        /\ RegisterIndex(parts)

\* the stored target is the one of the last well-formed REGISTER_INDEX: such
\* a command stores its target, and no other step changes the stored one
LastWriterWins ==
    /\ \A addr \in TargetAddrs : RegistersTarget(addr) => index_server_addr' = addr
    /\ index_server_addr' # index_server_addr => RegistersTarget(index_server_addr')

\* a SERVER_DOWN goes to the target stored when it is sent, which is the one
\* stored since the delivery began
SentToStoredTarget ==
    /\ h_pc = "notify" /\ h_pc' = "notify" => index_server_addr' = index_server_addr
    /\ Len(outbox') > Len(outbox) =>
          /\ h_pc = "notify"
          /\ outbox' = Append(outbox, outbox'[Len(outbox')])
          /\ outbox'[Len(outbox')].to = index_server_addr
          /\ outbox'[Len(outbox')].message[1] = "SERVER_DOWN"

DeliveryFails == h_pc = "notify" /\ h_pc' # "notify" /\ outbox' = outbox

\* after a failed delivery the record is still dead, the sweep holds the
\* store lock and goes on with the next record, and nothing is counted anew
FailureSwallowed ==
    DeliveryFails =>
        /\ servers' = servers
        /\ IsStatus(servers', h_notify, "dead")
        /\ h_pc' = "scan"
        /\ h_iter' = h_iter + 1
        /\ servers_lock' = "checker"
        /\ index_server_lock' = "free"
        /\ attempts' = attempts /\ flips' = flips

\* a delivery under way is the only one since the last heartbeat of its server
SingleAttempt ==
    h_pc = "notify" =>
        /\ IsStatus(servers, h_notify, "dead")
        /\ flips[h_notify] = 1
        /\ attempts[h_notify] = 1

\* a delivery is attempted for a server only in the step that flips it
NoRetry ==
    \A s \in AllServers : attempts'[s] > attempts[s] => FlipsToDead(s)

CheckerRuns == h_pc \in {"sleep", "acquire", "scan", "notify"}

\* C18: when the delivery of SERVER_DOWN fails the record stays dead, the
\* delivery is not tried again in this or a later sweep, the sweep goes on
\* with the remaining records and the Liveness Checker keeps running.
C18_DeliveryFailureSwallowed ==
    /\ [](SingleAttempt /\ CheckerRuns)
    /\ [][FailureSwallowed /\ NoRetry]_vars

\* the delivery for CS1 failed, the sweep went on and notified the target of
\* CS2, and a later sweep has passed over both dead records
C18_Witness ==
    /\ srv_order = <<"CS1", "CS2">>
    /\ IsStatus(servers, "CS1", "dead") /\ IsStatus(servers, "CS2", "dead")
    /\ servers["CS1"].last_seen = servers["CS2"].last_seen
    /\ attempts["CS1"] = 1 /\ attempts["CS2"] = 1
    /\ Len(outbox) = 1 /\ outbox[1].message[2] = "CS2"
    /\ content_servers = EmptyDict
    /\ h_pc = "sleep"
    /\ current_time - servers["CS1"].last_seen > 2 * HEARTBEAT_TIMEOUT

(***************************************************************************)
(* The command connections: every kind of line, well-formed, malformed and *)
(* unknown, on a registration connection and a client connection of the    *)
(* Index Server and on a TCP connection of the Monitor                     *)
(***************************************************************************)
BadPort == <<"7", "0", "o", "1">>

SessionRegisterMsgs ==
    {<<"REGISTER", "CS1", T7001, T7002>>,
     <<"REGISTER", "CS1">>,
     <<"REGISTER", "CS1", BadPort, T7002>>}

SessionAddFileMsgs == {<<"ADD_FILE", "CS1", "a.txt", <<"1", "0", "0">>>>}

SessionDownMsgs == {<<"SERVER_DOWN", "CS1", <<"0">>>>}

SessionClientMsgs ==
    {<<"HELLO">>, <<"GET", "a.txt">>, <<"GET">>, <<"LIST_FILES">>, <<"LIST_SERVERS">>,
     <<"QUIT">>, <<"GETX", "a.txt">>}

SessionHeartbeatMsgs == {<<"HEARTBEAT", "CS1", "localhost", T7001, <<"0">>, <<"1">>>>}

SessionMonitorMsgs == {<<"LIST_SERVERS">>, <<"PING">>, <<"STATUS">>}

SessionRegisterIndexMsgs ==
    {<<"REGISTER_INDEX", "localhost", T5001>>,
     <<"REGISTER_INDEX", "localhost">>,
     <<"REGISTER_INDEX", "localhost", <<"5", "0", "0", "1", "/", "t", "c", "p">>>>,
     <<"REGISTER_INDEXES", "localhost", T5002>>}

SessionRegisterCmd == \E parts \in SessionRegisterMsgs : Register(parts, StoreIp)

SessionAddFileCmd == \E parts \in SessionAddFileMsgs : AddFile(parts)

SessionDownArrives == \E m \in SessionDownMsgs : Notification(m) /\ UNCHANGED outbox

SessionClientSends == \E h \in Clients, m \in SessionClientMsgs : ClientRequest(h, m)

SessionHeartbeats == \E parts \in SessionHeartbeatMsgs : Heartbeat(parts) /\ UNCHANGED <<e_vars, u_last>>

SessionMonitorCmd == \E m \in SessionMonitorMsgs : MonitorRequest(m)

SessionRegisterIndex == \E parts \in SessionRegisterIndexMsgs : RegisterIndex(parts)

NextSession ==
    \/ SessionRegisterCmd
    \/ SessionAddFileCmd
    \/ SessionDownArrives
    \/ SessionClientSends
    \/ MonitorAnswers
    \/ MonitorUnreachable
    \/ ClientMergeLock
    \/ ClientMerge
    \/ ClientSelect
    \/ ClientLookup
    \/ SessionHeartbeats
    \/ SessionMonitorCmd
    \/ SessionRegisterIndex
    \/ MonitorAccept

SpecSession == Init /\ [][NextSession]_vars

(***************************************************************************)
(* Properties of the command connections (SpecSession)                     *)
(***************************************************************************)
\* REGISTER with too few tokens or a port that is no number
MalformedRegister(parts) ==
    parts[1] = "REGISTER" /\ (Len(parts) < 4 \/ ~IsInt(parts[3]) \/ ~IsInt(parts[4]))

\* REGISTER_INDEX with too few tokens or a port that is no number
MalformedRegisterIndex(parts) ==
    parts[1] = "REGISTER_INDEX" /\ (Len(parts) < 3 \/ ~IsInt(parts[3]))

MalformedRegisterRefused ==
    \A parts \in SessionRegisterMsgs :
        MalformedRegister(parts) /\ Register(parts, StoreIp) =>
            /\ r_reply' = "ERROR INVALID_FORMAT"
            /\ UNCHANGED <<content_servers, cs_order, file_index>>

MalformedRegisterIndexRefused ==
    \A parts \in SessionRegisterIndexMsgs :
        MalformedRegisterIndex(parts) /\ RegisterIndex(parts) =>
            /\ m_reply'.kind = "ERROR INVALID_FORMAT"
            /\ UNCHANGED index_server_addr

MalformedGetRefused ==
    \A h \in Clients :
        ClientRequest(h, <<"GET">>) =>
            /\ c_reply'[h].kind = "ERROR INVALID_FORMAT"
            /\ UNCHANGED idx_vars

\* C19: a REGISTER sent to the Index Server, a REGISTER_INDEX sent to the
\* Monitor or a GET, with too few tokens or a port that cannot be parsed, is
\* answered ERROR INVALID_FORMAT and leaves the registry and the notification
\* target unchanged.
C19_MalformedGetsInvalidFormat ==
    [][MalformedRegisterRefused /\ MalformedRegisterIndexRefused /\ MalformedGetRefused]_vars

\* the commands no endpoint of the protocol defines
UnknownClientMsgs == {<<"QUIT">>, <<"GETX", "a.txt">>}

UnknownMonitorMsgs == {<<"STATUS">>, <<"REGISTER_INDEXES", "localhost", T5002>>}

\* the step handles the line m on the Monitor's TCP connection
MonitorHandles(m) ==
    IF startswith(m[1], "REGISTER_INDEX") THEN RegisterIndex(m) ELSE MonitorRequest(m)

UnknownOnClientConnection ==
    \A h \in Clients, m \in UnknownClientMsgs :
        ClientRequest(h, m) =>
            /\ c_reply'[h].kind = "ERROR UNKNOWN_COMMAND"
            /\ c_open'[h] /\ c_pc'[h] = "recv"
            /\ UNCHANGED idx_vars

UnknownOnMonitorConnection ==
    \A m \in UnknownMonitorMsgs :
        MonitorHandles(m) =>
            /\ m_reply'.kind = "ERROR UNKNOWN_COMMAND"
            /\ m_open'
            /\ UNCHANGED mon_vars

\* C20: on a client connection of the Index Server and on a TCP connection of
\* the Monitor a command that is not one of the protocol is answered ERROR
\* UNKNOWN_COMMAND, changes no store, and leaves the connection open for the
\* next command.
C20_UnknownCommandKeepsSession ==
    [][UnknownOnClientConnection /\ UnknownOnMonitorConnection]_vars

(***************************************************************************)
(* Content Server CS1 (content_server.py): start(), the registration       *)
(* handshake with handle_content_server of the Index Server, the heartbeat *)
(* emitter and the download connections                                    *)
(***************************************************************************)
ServerId == "CS1"

\* self.files after scan_files: the names in the order of the dict; every
\* name is NameLen bytes long and every file has the size FileSize
Catalog ==
    <<"f01", "f02", "f03", "f04", "f05", "f06", "f07", "f08",
      "f09", "f10", "f11", "f12", "f13", "f14", "f15", "f16">>

NameLen == 250

FileSize == <<"1", "0", "0">>

\* conn.recv(4096) of handle_content_server
RecvBuf == 4096

HEARTBEAT_INTERVAL == 3

\* len("REGISTER") = len("ADD_FILE"), len("DONE_FILES"), len("CS1")
CmdLen == 8

DoneLen == 10

IdLen == 3

\* the lines CS1 writes to the registration connection, as tokens: the
\* REGISTER line, one ADD_FILE per catalog entry, DONE_FILES
NumLines == Len(Catalog) + 2

Tokens(i) ==
    IF i = 1 THEN <<"REGISTER", ServerId, T7001, T7002>>
    ELSE IF i <= Len(Catalog) + 1 THEN <<"ADD_FILE", ServerId, Catalog[i - 1], FileSize>>
    ELSE <<"DONE_FILES">>

\* the bytes of each token
TokLens(i) ==
    IF i = 1 THEN <<CmdLen, IdLen, Len(T7001), Len(T7002)>>
    ELSE IF i <= Len(Catalog) + 1 THEN <<CmdLen, IdLen, NameLen, Len(FileSize)>>
    ELSE <<DoneLen>>

\* the tokens that are written with f"{int}"
Numeric(i, j) == IF i = 1 THEN j \in {3, 4} ELSE j = 4

\* offset of token j in a line: the tokens before it, each followed by a space
RECURSIVE TokOffset(_, _)
TokOffset(lens, j) == IF j = 1 THEN 0 ELSE TokOffset(lens, j - 1) + lens[j - 1] + 1

\* bytes of line i with its "\n"
LineLen(i) == TokOffset(TokLens(i), Len(TokLens(i))) + TokLens(i)[Len(TokLens(i))] + 1

RECURSIVE LineStart(_)
LineStart(i) == IF i = 1 THEN 0 ELSE LineStart(i - 1) + LineLen(i - 1)

Min(a, b) == IF a < b THEN a ELSE b

Max(a, b) == IF a > b THEN a ELSE b

\* line.split() of the first k bytes of line i: the tokens that are complete
\* and the beginning of the one the cut falls into; the beginning of a word is
\* no word of the protocol
PrefixTokens(i, k) ==
    LET toks == Tokens(i)
        lens == TokLens(i)
        n == Cardinality({j \in 1..Len(toks) : TokOffset(lens, j) < k})
    IN  [j \in 1..n |->
            IF TokOffset(lens, j) + lens[j] <= k THEN toks[j]
            ELSE IF Numeric(i, j) THEN SubSeq(toks[j], 1, k - TokOffset(lens, j))
            ELSE "~"]

\* what the handler makes of the bytes of line i that lie in the chunk [a, b):
\* the rest of a line whose beginning was in the chunk before is no command
Piece(i, a, b) ==
    LET lo == Max(a, LineStart(i)) - LineStart(i)
        hi == Min(b, LineStart(i) + LineLen(i)) - LineStart(i)
    IN  IF lo = 0 THEN PrefixTokens(i, hi)
        ELSE IF lo >= LineLen(i) - 1 THEN <<>>
        ELSE <<"~">>

\* data.decode('utf-8').strip().split('\n') of the bytes [a, b) of the
\* stream, without the empty lines
Decode(a, b) ==
    LET first == CHOOSE i \in 1..NumLines : LineStart(i) <= a /\ a < LineStart(i) + LineLen(i)
        last == CHOOSE i \in 1..NumLines : LineStart(i) < b /\ b <= LineStart(i) + LineLen(i)
    IN  SelectSeq([j \in 1..(last - first + 1) |-> Piece(first + j - 1, a, b)],
                  LAMBDA parts : parts # <<>>)

\* sock.connect and sendall of the REGISTER line
SConnect ==
    /\ s_pc = "connect"
    /\ s_calls' = s_calls + 1
    /\ g_sent' = LineLen(1)
    /\ s_pc' = "await_registered"
    /\ UNCHANGED <<now, idx_vars, cl_vars, mon_vars, chk_vars, outbox, hist_vars, conn_vars,
                   s_file, s_result, s_responses, t_listening, e_vars, g_open, g_rcvd,
                   g_lines, g_replies, x_vars, u_pc, u_last>>

\* connect, sendall or recv raises: the except of register_with_index_server
\* logs and returns False
SFail ==
    /\ s_pc \in {"connect", "await_registered", "add_files", "await_added"}
    /\ s_calls' = IF s_pc = "connect" THEN s_calls + 1 ELSE s_calls
    /\ s_result' = "False"
    /\ s_pc' = "returned"
    /\ UNCHANGED <<now, idx_vars, cl_vars, mon_vars, chk_vars, outbox, hist_vars, conn_vars,
                   s_file, s_responses, t_listening, e_vars, reg_vars, x_vars, u_pc, u_last>>

\* main of the Index Server: recv(1024, MSG_PEEK) on the accepted connection;
\* the first bytes start with REGISTER, so handle_content_server is started;
\* the bytes stay in the socket
IndexPeek ==
    /\ g_open = "none"
    /\ g_sent > 0
    /\ startswith(PrefixTokens(1, Min(g_sent, 1024))[1], "REGISTER")
    /\ g_open' = "peeked"
    /\ UNCHANGED <<now, idx_vars, cl_vars, mon_vars, chk_vars, outbox, hist_vars, conn_vars,
                   cs_vars, e_vars, g_sent, g_rcvd, g_lines, g_replies, x_vars, u_pc, u_last>>

\* data = conn.recv(4096): what has arrived, at most RecvBuf bytes
HandlerRecv ==
    /\ g_open = "peeked"
    /\ g_lines = <<>>
    /\ g_sent > g_rcvd
    /\ g_rcvd' = g_rcvd + Min(g_sent - g_rcvd, RecvBuf)
    /\ g_lines' = Decode(g_rcvd, g_rcvd')
    /\ UNCHANGED <<now, idx_vars, cl_vars, mon_vars, chk_vars, outbox, hist_vars, conn_vars,
                   cs_vars, e_vars, g_open, g_sent, g_replies, x_vars, u_pc, u_last>>

\* conn.recv returns b'' after CS1 has closed its socket: break, conn.close()
HandlerEof ==
    /\ g_open = "peeked"
    /\ g_lines = <<>>
    /\ g_sent = g_rcvd
    /\ s_result # None
    /\ g_open' = "closed"
    /\ UNCHANGED <<now, idx_vars, cl_vars, mon_vars, chk_vars, outbox, hist_vars, conn_vars,
                   cs_vars, e_vars, g_sent, g_rcvd, g_lines, g_replies, x_vars, u_pc, u_last>>

\* one line of the chunk in the loop of handle_content_server; a ValueError
\* of int() is logged by the except and the connection is closed
HandlerLine ==
    /\ g_open = "peeked"
    /\ g_lines # <<>>
    /\ LET parts == Head(g_lines)
       IN  IF startswith(parts[1], "REGISTER")
           THEN IF Len(parts) >= 4
                THEN /\ data_lock = "free"
                     /\ IF IsInt(parts[3]) /\ IsInt(parts[4])
                        THEN /\ content_servers' =
                                  DictSet(content_servers, parts[2],
                                          register_record(parts, StoreIp))
                             /\ cs_order' = OrderSet(cs_order, content_servers, parts[2])
                             /\ c_server' = Detach(parts[2])
                             /\ r_reply' = "OK REGISTERED"
                             /\ g_replies' = Append(g_replies, "OK REGISTERED")
                             /\ g_lines' = Tail(g_lines)
                             /\ UNCHANGED g_open
                        ELSE /\ r_reply' = None
                             /\ g_open' = "closed"
                             /\ g_lines' = <<>>
                             /\ UNCHANGED <<content_servers, cs_order, c_server, g_replies>>
                     /\ UNCHANGED <<file_index, fi_order>>
                ELSE /\ r_reply' = "ERROR INVALID_FORMAT"
                     /\ g_replies' = Append(g_replies, "ERROR INVALID_FORMAT")
                     /\ g_lines' = Tail(g_lines)
                     /\ UNCHANGED <<content_servers, cs_order, c_server, file_index, fi_order,
                                    g_open>>
           ELSE IF startswith(parts[1], "ADD_FILE")
           THEN /\ IF Len(parts) >= 4
                   THEN /\ data_lock = "free"
                        /\ file_index' = add_file(file_index, parts[2], parts[3], parts[4])
                        /\ fi_order' = OrderSet(fi_order, file_index, parts[3])
                        /\ IF IsInt(parts[4])
                           THEN g_lines' = Tail(g_lines) /\ UNCHANGED g_open
                           ELSE g_lines' = <<>> /\ g_open' = "closed"
                   ELSE /\ g_lines' = Tail(g_lines)
                        /\ UNCHANGED <<file_index, fi_order, g_open>>
                /\ UNCHANGED <<content_servers, cs_order, c_server, r_reply, g_replies>>
           ELSE IF parts = <<"DONE_FILES">>
           THEN /\ g_replies' = Append(g_replies, "OK FILES_ADDED")
                /\ g_lines' = Tail(g_lines)
                /\ UNCHANGED <<content_servers, cs_order, c_server, file_index, fi_order,
                               r_reply, g_open>>
           ELSE /\ g_lines' = Tail(g_lines)
                /\ UNCHANGED <<content_servers, cs_order, c_server, file_index, fi_order,
                               r_reply, g_open, g_replies>>
    /\ UNCHANGED <<now, data_lock, c_pc, c_file, c_response, c_refreshed, c_size, c_iter,
                   c_reply, c_open, c_sel, mon_vars, chk_vars, outbox, hist_vars, m_reply,
                   m_open, cs_vars, e_vars, g_sent, g_rcvd, x_vars, u_pc, u_last>>

\* response = sock.recv(1024): the replies that have arrived, or '' when the
\* handler has closed the connection; the response is logged, not inspected
SRecv ==
    /\ s_pc \in {"await_registered", "await_added"}
    /\ g_replies # <<>> \/ g_open = "closed"
    /\ s_responses' = Append(s_responses, g_replies)
    /\ g_replies' = <<>>
    /\ IF s_pc = "await_registered"
       THEN /\ s_pc' = "add_files"
            /\ UNCHANGED s_result
       ELSE \* sock.close(); return True
            /\ s_pc' = "returned"
            /\ s_result' = "True"
    /\ UNCHANGED <<now, idx_vars, cl_vars, mon_vars, chk_vars, outbox, hist_vars, conn_vars,
                   s_file, s_calls, t_listening, e_vars, g_open, g_sent, g_rcvd, g_lines,
                   x_vars, u_pc, u_last>>

\* sendall of the next ADD_FILE line, or of DONE_FILES after the last one
SSend ==
    /\ s_pc = "add_files"
    /\ g_sent' = g_sent + LineLen(s_file + 1)
    /\ IF s_file <= Len(Catalog)
       THEN s_file' = s_file + 1 /\ UNCHANGED s_pc
       ELSE s_pc' = "await_added" /\ UNCHANGED s_file
    /\ UNCHANGED <<now, idx_vars, cl_vars, mon_vars, chk_vars, outbox, hist_vars, conn_vars,
                   s_result, s_calls, s_responses, t_listening, e_vars, g_open, g_rcvd,
                   g_lines, g_replies, x_vars, u_pc, u_last>>

\* start() goes on only when the registration has succeeded
SStartHeartbeatIfRegistered ==
    /\ s_pc = "returned"
    /\ IF s_result = "True"
       THEN e_pc' = "send" /\ s_pc' = "heartbeat"
       ELSE e_pc' = e_pc /\ s_pc' = "connect"
    /\ UNCHANGED <<now, idx_vars, cl_vars, mon_vars, chk_vars, outbox, hist_vars, conn_vars,
                   s_file, s_result, s_calls, s_responses, t_listening, e_wake, e_failed,
                   reg_vars, x_vars, u_pc, u_last>>

\* start(): whatever register_with_index_server returned, the heartbeat thread
\* is started
SStartHeartbeat ==
    /\ s_pc = "returned"
    /\ e_pc' = "send"
    /\ s_pc' = "heartbeat"
    /\ UNCHANGED <<now, idx_vars, cl_vars, mon_vars, chk_vars, outbox, hist_vars, conn_vars,
                   s_file, s_result, s_calls, s_responses, t_listening, e_wake, e_failed,
                   reg_vars, x_vars, u_pc, u_last>>

\* start(): start_tcp_server binds, listens and accepts until the process ends
SStartTcp ==
    /\ s_pc = "heartbeat"
    /\ t_listening' = TRUE
    /\ s_pc' = "serving"
    /\ UNCHANGED <<now, idx_vars, cl_vars, mon_vars, chk_vars, outbox, hist_vars, conn_vars,
                   s_file, s_result, s_calls, s_responses, e_vars, reg_vars, x_vars, u_pc,
                   u_last>>

\* the datagram of one tick
HeartbeatOfCS1 ==
    <<"HEARTBEAT", ServerId, "localhost", T7001, Str(active_clients), Str(Len(Catalog))>>

\* one iteration of send_heartbeat: the datagram is received by the Monitor,
\* is lost, or sendto raises and the except inside the loop logs it; then
\* time.sleep(HEARTBEAT_INTERVAL)
EmitterSend(outcome) ==
    /\ e_pc = "send"
    /\ IF outcome = "received"
       THEN Heartbeat(HeartbeatOfCS1) /\ u_last' = heartbeat_outcome(HeartbeatOfCS1)
       ELSE UNCHANGED <<now, idx_vars, cl_vars, mon_vars, chk_vars, outbox, hist_vars,
                        conn_vars, cs_vars, reg_vars, x_vars, u_pc, u_last>>
    /\ e_failed' = (outcome = "raised")
    /\ e_pc' = "sleep"
    /\ e_wake' = now + HEARTBEAT_INTERVAL

\* time.sleep(HEARTBEAT_INTERVAL) returns
EmitterWake ==
    /\ e_pc = "sleep"
    /\ now >= e_wake
    /\ e_pc' = "send"
    /\ UNCHANGED <<now, idx_vars, cl_vars, mon_vars, chk_vars, outbox, hist_vars, conn_vars,
                   cs_vars, e_wake, e_failed, reg_vars, x_vars, u_pc, u_last>>

(***************************************************************************)
(* The start of CS1: the Index Server is reachable or not, a socket call   *)
(* of the handshake may raise at any point, the handler of the Index       *)
(* Server runs at its own pace; then the heartbeats go to the Monitor      *)
(***************************************************************************)
StartMaxTime == 4

EmitterSends == \E outcome \in {"received", "lost", "raised"} : EmitterSend(outcome)

\* the steps of the handshake run within one unit of the clock
StartTick == e_pc = "sleep" /\ Tick(TickLen, StartMaxTime)

NextStart ==
    \/ SConnect
    \/ SFail
    \/ IndexPeek
    \/ HandlerRecv
    \/ HandlerLine
    \/ HandlerEof
    \/ SRecv
    \/ SSend
    \/ SStartHeartbeat
    \/ SStartTcp
    \/ EmitterSends
    \/ EmitterWake
    \/ StartTick

SpecStart == Init /\ [][NextStart]_vars

(***************************************************************************)
(* The registration handshake alone: no socket call raises                 *)
(***************************************************************************)
NextHandshake ==
    \/ SConnect
    \/ IndexPeek
    \/ HandlerRecv
    \/ HandlerLine
    \/ HandlerEof
    \/ SRecv
    \/ SSend

SpecHandshake == Init /\ [][NextHandshake]_vars

(***************************************************************************)
(* Properties of the health refresh (SpecStore: the Monitor's reply is any *)
(* report over CS1 and CS2, also for ids that are not registered)          *)
(***************************************************************************)
\* the ids a LIST_SERVERS reply names
ReportedIds(lines) == {lines[i][2] : i \in 1..Len(lines)}

\* the line of the reply about s
LineAbout(lines, s) == lines[CHOOSE i \in 1..Len(lines) : lines[i][2] = s]

\* the step merges the reply handler h holds
RefreshMergeFrame ==
    \A h \in Clients :
        Merge(h) =>
            /\ DOMAIN content_servers' = DOMAIN content_servers
            /\ UNCHANGED <<cs_order, file_index, fi_order>>
            /\ \A s \in DOMAIN content_servers :
                  IF s \in ReportedIds(c_response[h])
                  THEN content_servers'[s] =
                          [content_servers[s] EXCEPT
                              !.load = IntOf(LineAbout(c_response[h], s)[5]),
                              !.status = LineAbout(c_response[h], s)[6]]
                  ELSE content_servers'[s] = content_servers[s]

\* C25: a successful health refresh overwrites load and status of exactly the
\* registered ids that the Monitor's reply names, with the reported values; it
\* creates no record, leaves ip, tcp_port, udp_port and the file index as they
\* are, and leaves the records of ids the reply does not name untouched.
C25_RefreshMergeFrame == [][RefreshMergeFrame]_vars

\* a reply was merged while only CS1, registered on port 7101, is in the
\* registry: CS1 has the reported load and status and its own port, and there
\* is no record of CS2
C25_Witness ==
    /\ \E h \in Clients : c_pc[h] = "select" /\ c_refreshed[h] = "True"
    /\ DOMAIN content_servers = {"CS1"}
    /\ content_servers["CS1"].load = 1
    /\ content_servers["CS1"].status = "dead"
    /\ content_servers["CS1"].tcp_port = 7101
    /\ "a.txt" \in DOMAIN file_index

LastUpdateTracksRefresh ==
    \A h \in Clients :
        Merge(h) =>
            \A s \in ReportedIds(c_response[h]) \cap DOMAIN content_servers :
                content_servers'[s].last_update >= now

\* C26: after a health refresh that merges the Monitor's report about a
\* registered server s, the last_update of s is the time of that refresh.
C26_LastUpdateTracksRefresh == [][LastUpdateTracksRefresh]_vars

(***************************************************************************)
(* Properties of the liveness sweep (SpecMonitor)                          *)
(***************************************************************************)
\* by the time the sweep sampled, s is alive and silent for more than the timeout
StaleAtSample(s) ==
    servers[s].status = "alive" /\ current_time - servers[s].last_seen > HEARTBEAT_TIMEOUT

NoPrematureDeath ==
    /\ \A s \in AllServers : FlipsToDead(s) => h_pc = "scan" /\ StaleAtSample(s)
    /\ SweepVisit =>
          /\ DOMAIN servers' = DOMAIN servers
          /\ \A s \in DOMAIN servers :
                /\ ~StaleAtSample(s) => servers'[s] = servers[s]
                /\ servers'[s] = [servers[s] EXCEPT !.status = servers'[s].status]
                /\ servers'[s].status \in {servers[s].status, "dead"}

\* C27: the sweep sets a record dead only if the record is alive and, at the
\* time the sweep sampled, silent for more than HEARTBEAT_TIMEOUT; it leaves
\* every other record unchanged and changes no field but status.
C27_NoPrematureDeath == [][NoPrematureDeath]_vars

\* the sweep that sampled at 12 has visited both records: CS1, last heard at
\* 0, is dead; CS2, last heard at 4 and silent for exactly the timeout, is alive
C27_Witness ==
    /\ h_pc = "scan"
    /\ h_iter > Len(srv_order)
    /\ IsStatus(servers, "CS1", "dead") /\ flips["CS1"] = 1
    /\ IsStatus(servers, "CS2", "alive")
    /\ current_time - servers["CS2"].last_seen = HEARTBEAT_TIMEOUT

\* the sweep visits the record of s, stale at the sampled time, while no
\* notification target is registered
TimesOutUnnotified(s) ==
    SweepTimesOut(s) /\ index_server_addr = NoAddr /\ SweepVisit

\* notify_index_server_failure has opened no connection: nothing is sent, no
\* attempt is under way and the sweep goes on with the next record
NoConnectionOpened ==
    /\ outbox' = outbox
    /\ attempts' = attempts
    /\ h_pc' = "scan" /\ h_notify' = None
    /\ index_server_lock' = "free"

NoTargetNoNotification ==
    /\ \A s \in AllServers :
          TimesOutUnnotified(s) => IsStatus(servers', s, "dead") /\ NoConnectionOpened
    /\ \A parts \in RegisterIndexMsgs :
          RegisterIndex(parts) => outbox' = outbox /\ UNCHANGED <<chk_vars, hist_vars>>
    /\ \A s \in AllServers :
          IsStatus(servers, s, "dead") =>
              /\ attempts'[s] <= attempts[s]
              /\ Len(outbox') > Len(outbox) => outbox'[Len(outbox')].message[2] # s \/ h_notify = s

\* C28: when a server times out while no notification target is registered,
\* it is still flipped to dead and no connection is opened; a REGISTER_INDEX
\* that arrives later sends no SERVER_DOWN for the servers that are dead.
C28_NoTargetNoNotification == [][NoTargetNoNotification]_vars

\* CS1 was flipped without a target and without an attempt; the target is
\* registered now, a sweep has passed over the dead record and nothing was sent
C28_Witness ==
    /\ IsStatus(servers, "CS1", "dead")
    /\ flips["CS1"] = 1 /\ attempts["CS1"] = 0
    /\ index_server_addr = IndexNotifyAddr
    /\ m_reply.kind = "OK INDEX_REGISTERED"
    /\ h_pc = "scan" /\ h_iter > Len(srv_order)
    /\ outbox = <<>>

(***************************************************************************)
(* The dead mark at the Index Server (SpecPropagate: CS1 sends no heartbeat *)
(* and does not register again)                                            *)
(***************************************************************************)
\* the Index Server and the Monitor both hold s dead: the SERVER_DOWN for s was
\* applied, or a report taken after the flip was merged
MarkedDead(s) == IsStatus(content_servers, s, "dead") /\ IsStatus(servers, s, "dead")

DeadMarkStands ==
    MarkedDead("CS1") => IsStatus(content_servers', "CS1", "dead") /\ ~Returning("CS1")'

\* C29: once the Index Server has marked CS1 dead, no step sets it back to
\* alive or selects it while CS1 neither registers again nor sends a
\* heartbeat; in particular not the merge of a report taken before the flip.
C29_DeadMarkNotUndone == [][DeadMarkStands]_vars

(***************************************************************************)
(* A registered server the Monitor never hears: CS1 and CS2 have           *)
(* registered a.txt and the notification listener is registered; only CS1  *)
(* sends heartbeats, and then falls silent or not. Clients send GET a.txt. *)
(***************************************************************************)
SilentMaxTime == 12

InitSilent ==
    /\ now = 0
    /\ content_servers =
         [s \in {"CS1", "CS2"} |->
            register_record(IF s = "CS1" THEN <<"REGISTER", "CS1", T7001, T7002>>
                            ELSE <<"REGISTER", "CS2", T7101, T7102>>, StoreIp)]
    /\ cs_order = <<"CS1", "CS2">>
    /\ file_index = [f \in {"a.txt"} |-> <<<<"CS1", 100>>, <<"CS2", 100>>>>]
    /\ fi_order = <<"a.txt">>
    /\ data_lock = "free"
    /\ InitClient
    /\ r_reply = "OK REGISTERED"
    /\ InitMonitor
    /\ InitPeer

\* the Index Server's notification listener registers at start
SilentRegisters == RegisterIndex(<<"REGISTER_INDEX", "localhost", T5001>>)

SilentHeartbeats ==
    /\ Heartbeat(<<"HEARTBEAT", "CS1", "localhost", T7001, <<"1">>, <<"1">>>>)
    /\ UNCHANGED <<e_vars, u_last>>

SilentTick == Tick(TickLen, SilentMaxTime)

NextSilent ==
    \/ SilentRegisters
    \/ SilentHeartbeats
    \/ ClientArrives
    \/ MonitorAnswers
    \/ MonitorUnreachable
    \/ ClientMergeLock
    \/ ClientMerge
    \/ ClientSelect
    \/ ClientLookup
    \/ SweepWake
    \/ SweepAcquire
    \/ SweepVisit
    \/ NotifyEnds
    \/ IndexAccepts
    \/ SilentTick

SpecSilent == InitSilent /\ [][NextSilent]_vars

\* CS2 is registered alive and has no record at the Monitor
UnheardStaysAlive ==
    /\ "CS2" \notin DOMAIN servers
    /\ IsStatus(content_servers, "CS2", "alive")

\* select_best_server, called for a file CS2 announced, returns a server
UnheardIsSelectable ==
    \A h \in Clients : Select(h) /\ c_file[h] = "a.txt" => c_pc'[h] = "lookup"

\* C30: a registered server the Monitor has never heard from stays alive at
\* the Index Server through every sweep, refresh and GET, and so stays
\* selectable.
C30_UnheardServerStaysAlive == []UnheardStaysAlive /\ [][UnheardIsSelectable]_vars

\* CS1 was heard, timed out and was marked dead at the Index Server by its
\* SERVER_DOWN; a GET whose refresh merged the Monitor's report selected CS2
C30_Witness ==
    /\ IsStatus(servers, "CS1", "dead")
    /\ IsStatus(content_servers, "CS1", "dead")
    /\ attempts["CS1"] = 1 /\ outbox = <<>>
    /\ \E h \in Clients :
          c_pc[h] = "lookup" /\ c_refreshed[h] = "True" /\ c_sel[h] = "CS2"

(***************************************************************************)
(* Properties of the start of CS1 (SpecStart)                              *)
(***************************************************************************)
\* register_with_index_server has returned True after reading OK REGISTERED
\* and OK FILES_ADDED
HandshakeCompleted ==
    /\ s_result = "True"
    /\ s_responses = << <<"OK REGISTERED">>, <<"OK FILES_ADDED">> >>

\* the file index has an entry of sid for every name of the catalog
CatalogIndexed(sid) ==
    \A i \in 1..Len(Catalog) : \E e \in EntrySet(file_index, Catalog[i]) : e[1] = sid

\* C21: when the handshake of CS1 has run to completion with OK REGISTERED
\* and OK FILES_ADDED received, the registry holds CS1 alive with load 0 and
\* the file index holds an entry of CS1 for every catalog entry.
C21_HandshakeOutcome ==
    HandshakeCompleted =>
        /\ IsStatus(content_servers, ServerId, "alive")
        /\ content_servers[ServerId].load = 0
        /\ CatalogIndexed(ServerId)

(***************************************************************************)
(* The TCP service of CS1: handle_client on one accepted connection. The   *)
(* client writes commands at its own pace; a recv(1024) returns what has   *)
(* arrived, one command or several                                         *)
(***************************************************************************)
MaxPending == 2

TransferCommands ==
    {<<"GET", "f01">>, <<"GET", "nofile">>, <<"GET">>, <<"GETX", "f02">>, <<"LIST">>, <<>>}

CatalogNames == {Catalog[i] : i \in 1..Len(Catalog)}

\* message.split() of the commands that one recv returned
RECURSIVE Flatten(_)
Flatten(cmds) == IF cmds = <<>> THEN <<>> ELSE Head(cmds) \o Flatten(Tail(cmds))

Response(status, reason, size, body) ==
    [status |-> status, reason |-> reason, size |-> size, body |-> body]

\* the branches of handle_client on one message
transfer_response(parts) ==
    IF Len(parts) > 0 /\ startswith(parts[1], "GET")
    THEN IF Len(parts) >= 2
         THEN IF parts[2] \in CatalogNames
              THEN Response("OK", None, FileSize, parts[2])
              ELSE Response("ERROR", "FILE_NOT_FOUND", <<>>, None)
         ELSE Response("ERROR", "INVALID_FORMAT", <<>>, None)
    ELSE Response("ERROR", "UNKNOWN_COMMAND", <<>>, None)

\* start_tcp_server accepts; handle_client counts the client in
XAccept ==
    /\ t_listening
    /\ x_pc \in {"none", "closed"}
    /\ x_pc' = "recv"
    /\ x_reply' = <<>>
    /\ x_inbox' = <<>>
    /\ active_clients' = active_clients + 1
    /\ UNCHANGED <<now, idx_vars, cl_vars, mon_vars, chk_vars, outbox, hist_vars, conn_vars,
                   cs_vars, e_vars, reg_vars, y_pc, u_pc, u_last>>

\* the client writes a command on the open connection
XClientSends(m) ==
    /\ x_pc \in {"recv", "closing"}
    /\ Len(x_inbox) < MaxPending
    /\ x_inbox' = Append(x_inbox, m)
    /\ UNCHANGED <<now, idx_vars, cl_vars, mon_vars, chk_vars, outbox, hist_vars, conn_vars,
                   cs_vars, e_vars, reg_vars, x_pc, x_reply, active_clients, y_pc, u_pc, u_last>>

\* the loop of handle_client goes back to recv after a response
XServeKeepsOpen(k, sent) ==
    /\ x_pc = "recv"
    /\ k \in 1..Len(x_inbox)
    /\ x_reply' = IF sent THEN Append(x_reply, transfer_response(Flatten(SubSeq(x_inbox, 1, k))))
                  ELSE x_reply
    /\ x_inbox' = SubSeq(x_inbox, k + 1, Len(x_inbox))
    /\ x_pc' = IF sent THEN "recv" ELSE "closing"
    /\ UNCHANGED <<now, idx_vars, cl_vars, mon_vars, chk_vars, outbox, hist_vars, conn_vars,
                   cs_vars, e_vars, reg_vars, active_clients, y_pc, u_pc, u_last>>

\* handle_client: recv(1024) returns the first k pending commands; one
\* response is written, or sendall raises; break, or the except, leaves the loop
XServe(k, sent) ==
    /\ x_pc = "recv"
    /\ k \in 1..Len(x_inbox)
    /\ x_reply' = IF sent THEN Append(x_reply, transfer_response(Flatten(SubSeq(x_inbox, 1, k))))
                  ELSE x_reply
    /\ x_inbox' = SubSeq(x_inbox, k + 1, Len(x_inbox))
    /\ x_pc' = "closing"
    /\ UNCHANGED <<now, idx_vars, cl_vars, mon_vars, chk_vars, outbox, hist_vars, conn_vars,
                   cs_vars, e_vars, reg_vars, active_clients, y_pc, u_pc, u_last>>

\* handle_client: the client has closed its end, recv returns b"" and the loop
\* is left without a response
XEof ==
    /\ x_pc = "recv"
    /\ x_inbox = <<>>
    /\ x_pc' = "closing"
    /\ UNCHANGED <<now, idx_vars, cl_vars, mon_vars, chk_vars, outbox, hist_vars, conn_vars,
                   cs_vars, e_vars, reg_vars, x_reply, x_inbox, active_clients, y_pc, u_pc, u_last>>

\* only a handler that has answered counts its client out
XCloseCountsAnswered ==
    /\ x_pc = "closing"
    /\ x_pc' = "closed"
    /\ active_clients' = IF x_reply # <<>> THEN active_clients - 1 ELSE active_clients
    /\ UNCHANGED <<now, idx_vars, cl_vars, mon_vars, chk_vars, outbox, hist_vars, conn_vars,
                   cs_vars, e_vars, reg_vars, x_reply, x_inbox, y_pc, u_pc, u_last>>

\* handle_client, finally: conn.close() and the client is counted out; what
\* the client wrote and nobody read is discarded with the socket
XClose ==
    /\ x_pc = "closing"
    /\ x_pc' = "closed"
    /\ active_clients' = active_clients - 1
    /\ UNCHANGED <<now, idx_vars, cl_vars, mon_vars, chk_vars, outbox, hist_vars, conn_vars,
                   cs_vars, e_vars, reg_vars, x_reply, x_inbox, y_pc, u_pc, u_last>>

XClientWrites == \E m \in TransferCommands : XClientSends(m)

XServes == \E k \in 1..MaxPending, sent \in BOOLEAN : XServe(k, sent)

\* CS1 starts without the Index Server and serves its clients
NextTransfer ==
    \/ SFail
    \/ SStartHeartbeat
    \/ SStartTcp
    \/ XAccept
    \/ XClientWrites
    \/ XServes
    \/ XEof
    \/ XClose

SpecTransfer == Init /\ [][NextTransfer]_vars

(***************************************************************************)
(* The loops of the daemons with failing peers: the sendto of the emitter  *)
(* raises, datagrams are malformed, the notification target refuses, and   *)
(* commands on the TCP connections raise in their handler                  *)
(***************************************************************************)
DaemonMaxTime == 12

MalformedHeartbeatMsgs ==
    {<<"HEARTBEAT", ServerId, "localhost", T7001, <<"0">>>>,
     <<"HEARTBEAT", ServerId, "localhost", BadPort, <<"0">>, <<"1">>>>,
     <<"HEARTBEAT", ServerId, "localhost", T7001, <<"n", "a">>, <<"1">>>>,
     <<"HEARTBEAT", ServerId, "localhost", T7001, <<"0">>, <<"1", ".", "5">>>>}

\* a datagram of another sender reaches the listener
DaemonDatagram(parts) ==
    /\ Heartbeat(parts)
    /\ u_last' = heartbeat_outcome(parts)
    /\ UNCHANGED e_vars

DaemonDatagrams == \E parts \in MalformedHeartbeatMsgs : DaemonDatagram(parts)

DaemonRegisterIndex ==
    \E parts \in {<<"REGISTER_INDEX", "localhost", T5001>>,
                  <<"REGISTER_INDEX", "localhost", BadPort>>} : RegisterIndex(parts)

DaemonRegisterCmd ==
    \E parts \in {<<"REGISTER", ServerId, T7001, T7002>>,
                  <<"REGISTER", ServerId, BadPort, T7002>>} : Register(parts, StoreIp)

\* the datagram reaches the Monitor or sendto raises
DaemonEmits == \E outcome \in {"received", "raised"} : EmitterSend(outcome)

\* the steps of the threads take no time: the clock moves while the emitter
\* and the sweep sleep
DaemonTick == e_pc = "sleep" /\ h_pc = "sleep" /\ Tick(TickLen, DaemonMaxTime)

NextDaemons ==
    \/ SFail
    \/ SStartHeartbeat
    \/ DaemonEmits
    \/ EmitterWake
    \/ DaemonDatagrams
    \/ SweepWake
    \/ SweepAcquire
    \/ SweepVisit
    \/ NotifyEnds
    \/ DaemonRegisterIndex
    \/ MonitorAccept
    \/ DaemonRegisterCmd
    \/ DaemonTick

SpecDaemons == Init /\ [][NextDaemons]_vars

(***************************************************************************)
(* The reference timing: CS1 sends a heartbeat every HEARTBEAT_INTERVAL,   *)
(* no two in a row fail; the listener stores a datagram as soon as         *)
(* servers_lock is free; the sweep holds the lock for as long as the       *)
(* notification about the silent CS2 takes                                 *)
(***************************************************************************)
LossMaxTime == 20

InitLoss ==
    /\ now = 0
    /\ content_servers = EmptyDict
    /\ cs_order = <<>>
    /\ file_index = EmptyDict
    /\ fi_order = <<>>
    /\ data_lock = "free"
    /\ InitClient
    /\ r_reply = None
    /\ servers =
         [s \in {"CS2"} |->
            heartbeat_record(<<"HEARTBEAT", "CS2", "localhost", T7101, <<"0">>, <<"1">>>>)]
    /\ srv_order = <<"CS2">>
    /\ servers_lock = "free"
    /\ index_server_addr = IndexNotifyAddr
    /\ index_server_lock = "free"
    /\ h_pc = "sleep"
    /\ current_time = 0
    /\ wake_at = SWEEP_PERIOD
    /\ h_iter = 0
    /\ h_notify = None
    /\ outbox = <<>>
    /\ flips = [s \in AllServers |-> 0]
    /\ attempts = [s \in AllServers |-> 0]
    /\ m_reply = Reply("OK INDEX_REGISTERED")
    /\ m_open = TRUE
    /\ InitPeer

\* one iteration of send_heartbeat: sendto raises, or the datagram reaches
\* the socket of the listener, whose recvfrom returns it; a datagram that
\* arrives while the listener waits for the lock is stored right after the
\* first, at the same time
LossySend(outcome) ==
    /\ e_pc = "send"
    /\ u_pc \in {"recvfrom", "acquire"}
    /\ outcome = "raised" => ~e_failed
    /\ u_pc' = IF outcome = "delivered" THEN "acquire" ELSE u_pc
    /\ e_failed' = (outcome = "raised")
    /\ e_pc' = "sleep"
    /\ e_wake' = now + HEARTBEAT_INTERVAL
    /\ UNCHANGED <<now, idx_vars, cl_vars, mon_vars, chk_vars, outbox, hist_vars, conn_vars,
                   cs_vars, reg_vars, x_vars, u_last>>

\* udp_heartbeat_listener: `with servers_lock:` is entered with the datagram
\* of CS1 and the record is replaced, last_seen = time.time()
ListenerStores ==
    /\ u_pc = "acquire"
    /\ servers_lock = "free"
    /\ servers' = DictSet(servers, ServerId, heartbeat_record(HeartbeatOfCS1))
    /\ srv_order' = OrderSet(srv_order, servers, ServerId)
    /\ outbox' = outbox \o recovery_messages(HeartbeatOfCS1)
    /\ flips' = [flips EXCEPT ![ServerId] = 0]
    /\ attempts' = [attempts EXCEPT ![ServerId] = 0]
    /\ u_last' = heartbeat_outcome(HeartbeatOfCS1)
    /\ u_pc' = "recvfrom"
    /\ UNCHANGED <<now, idx_vars, cl_vars, servers_lock, index_server_addr, index_server_lock,
                   chk_vars, conn_vars, cs_vars, e_vars, reg_vars, x_vars>>

LossySends == \E outcome \in {"delivered", "raised"} : LossySend(outcome)

\* a thread that can run does so before the clock moves; the clock moves
\* while the emitter and the sweep sleep or the sweep waits for the
\* notification target
LossTick ==
    /\ e_pc = "sleep" /\ now < e_wake
    /\ ~(u_pc = "acquire" /\ servers_lock = "free")
    /\ h_pc = "notify" \/ (h_pc = "sleep" /\ now < wake_at)
    /\ Tick(1, LossMaxTime)

NextLoss ==
    \/ SFail
    \/ SStartHeartbeat
    \/ LossySends
    \/ EmitterWake
    \/ ListenerStores
    \/ SweepWake
    \/ SweepAcquire
    \/ SweepVisit
    \/ NotifyEnds
    \/ LossTick

SpecLoss == InitLoss /\ [][NextLoss]_vars

(***************************************************************************)
(* Two download connections of CS1 at a time, each in its own thread of    *)
(* handle_client, and the heartbeats that report the number of clients     *)
(***************************************************************************)
CounterMaxTime == 8

\* start_tcp_server accepts a second connection; its handle_client counts
\* the client in under clients_lock
YAccept ==
    /\ t_listening
    /\ y_pc \in {"none", "closed"}
    /\ y_pc' = "recv"
    /\ active_clients' = active_clients + 1
    /\ UNCHANGED <<now, idx_vars, cl_vars, mon_vars, chk_vars, outbox, hist_vars, conn_vars,
                   cs_vars, e_vars, reg_vars, x_pc, x_reply, x_inbox, u_pc, u_last>>

\* the second handler leaves its loop: after its response, after recv
\* returned b"", or by an exception
YLeaves ==
    /\ y_pc = "recv"
    /\ y_pc' = "closing"
    /\ UNCHANGED <<now, idx_vars, cl_vars, mon_vars, chk_vars, outbox, hist_vars, conn_vars,
                   cs_vars, e_vars, reg_vars, x_pc, x_reply, x_inbox, active_clients, u_pc,
                   u_last>>

\* finally of the second handler: conn.close() and the client is counted out
\* under clients_lock
YClose ==
    /\ y_pc = "closing"
    /\ y_pc' = "closed"
    /\ active_clients' = active_clients - 1
    /\ UNCHANGED <<now, idx_vars, cl_vars, mon_vars, chk_vars, outbox, hist_vars, conn_vars,
                   cs_vars, e_vars, reg_vars, x_pc, x_reply, x_inbox, u_pc, u_last>>

CounterClientWrites == \E m \in {<<"GET", "f01">>, <<"LIST">>} : XClientSends(m)

CounterTick == e_pc = "sleep" /\ Tick(TickLen, CounterMaxTime)

NextCounter ==
    \/ SFail
    \/ SStartHeartbeat
    \/ SStartTcp
    \/ XAccept
    \/ CounterClientWrites
    \/ XServes
    \/ XEof
    \/ XClose
    \/ YAccept
    \/ YLeaves
    \/ YClose
    \/ EmitterSends
    \/ EmitterWake
    \/ CounterTick

SpecCounter == Init /\ [][NextCounter]_vars

\* start() has called register_with_index_server once and never calls it again;
\* whatever it returned, the heartbeat thread and then the TCP service start
StartedOnce ==
    /\ s_calls <= 1
    /\ s_pc \in {"returned", "heartbeat", "serving"} => s_calls = 1 /\ s_result # None
    /\ s_pc = "returned" => ENABLED SStartHeartbeat
    /\ s_pc = "heartbeat" => e_pc # "off" /\ ENABLED SStartTcp
    /\ s_pc = "serving" => e_pc # "off" /\ t_listening

StartGoesOn ==
    /\ s_pc = "returned" /\ s_pc' # s_pc => s_pc' = "heartbeat" /\ e_pc' = "send"
    /\ s_pc = "heartbeat" /\ s_pc' # s_pc => s_pc' = "serving" /\ t_listening'
    /\ s_pc = "serving" => s_pc' = "serving"
    /\ s_result # None => s_result' = s_result

\* C22: when the registration with the Index Server fails at any step, CS1
\* still starts its heartbeat loop and its TCP service; the registration is
\* attempted exactly once per start and never again.
C22_DegradedStart == []StartedOnce /\ [][StartGoesOn]_vars

\* the connect was refused: CS1 is unknown to the Index Server, serves on its
\* TCP port and the Monitor has received its heartbeat
C22_Witness ==
    /\ s_result = "False" /\ s_calls = 1
    /\ g_open = "none"
    /\ ServerId \notin DOMAIN content_servers
    /\ s_pc = "serving" /\ t_listening
    /\ e_pc = "sleep"
    /\ IsStatus(servers, ServerId, "alive")

TransferResponses ==
    {Response("OK", None, FileSize, f) : f \in CatalogNames}
    \cup {Response("ERROR", r, <<>>, None) :
            r \in {"FILE_NOT_FOUND", "INVALID_FORMAT", "UNKNOWN_COMMAND"}}

\* a connection has at most one response, and none while its handler still reads
AtMostOneResponse ==
    /\ Len(x_reply) <= 1
    /\ \A i \in 1..Len(x_reply) : x_reply[i] \in TransferResponses
    /\ x_pc = "recv" => x_reply = <<>>
    /\ x_reply # <<>> => x_pc \in {"closing", "closed"}
    /\ x_pc = "closing" => ENABLED XClose
    /\ active_clients = IF x_pc \in {"recv", "closing"} THEN 1 ELSE 0

\* once the handler has left its loop nothing is read or written on the
\* connection any more: the next step of the handler closes it
ClosedAfterResponse ==
    /\ x_pc = "closing" /\ x_pc' # x_pc => x_pc' = "closed"
    /\ x_pc \in {"closing", "closed"} /\ x_pc' # "recv" =>
          /\ x_reply' = x_reply
          /\ Len(x_inbox') >= Len(x_inbox)
          /\ SubSeq(x_inbox', 1, Len(x_inbox)) = x_inbox

\* C23: on an accepted connection CS1 processes at most one command; after
\* the first response the connection is closed and no second command on it
\* is answered.
C23_OneRequestPerConnection == []AtMostOneResponse /\ [][ClosedAfterResponse]_vars

\* the file was sent, the connection is closed and a second command of the
\* client was never read
C23_Witness ==
    /\ x_pc = "closed"
    /\ Len(x_reply) = 1
    /\ x_reply[1].status = "OK"
    /\ x_inbox # <<>>
    /\ active_clients = 0

\* no loop has ended, and the listener holds servers_lock only inside a step
LoopsRun ==
    /\ e_pc # "stopped"
    /\ u_pc = "recvfrom"
    /\ servers_lock # "listener"
    /\ CheckerRuns
    /\ e_pc = "sleep" /\ now >= e_wake => ENABLED EmitterWake
    /\ e_pc = "send" => ENABLED EmitterSends

\* an iteration of send_heartbeat ends in the sleep before the next one,
\* whether sendto raised or not
EmitterSurvives ==
    e_pc = "send" /\ e_pc' # e_pc => e_pc' = "sleep" /\ e_wake' = now + HEARTBEAT_INTERVAL

\* the sweep goes on after a notification that failed
CheckerSurvives == NotifyEnd(FALSE) => h_pc' = "scan" /\ servers' = servers

\* a datagram with too few tokens or a field that is no integer
MalformedIgnored ==
    (\E parts \in MalformedHeartbeatMsgs : Heartbeat(parts)) =>
        /\ servers' = servers
        /\ srv_order' = srv_order
        /\ servers_lock' = servers_lock
        /\ servers_lock' # "listener"
        /\ u_pc' = "recvfrom"

\* a handler that raised has closed its own connection and nothing else
HandlerFailureIsLocal ==
    /\ m_open /\ ~m_open' =>
          /\ m_reply' = NoReply
          /\ UNCHANGED <<r_reply, c_open, c_pc, idx_vars, mon_vars, chk_vars, u_pc, e_pc, x_pc,
                         g_open, t_listening>>
    /\ r_reply # None /\ r_reply' = None =>
          UNCHANGED <<m_open, m_reply, c_open, c_pc, idx_vars, mon_vars, chk_vars, u_pc, e_pc,
                      x_pc, g_open, t_listening>>

\* C24: a failed heartbeat send does not stop the emitter, a failed
\* notification does not stop the Liveness Checker, a malformed HEARTBEAT
\* datagram leaves the Monitor Store unchanged, with the lock released and the
\* listener running, and an exception in a connection handler of the Index
\* Server or the Monitor closes only that connection.
C24_DaemonLoopsSurvive ==
    /\ []LoopsRun
    /\ [][EmitterSurvives /\ CheckerSurvives /\ MalformedIgnored /\ HandlerFailureIsLocal]_vars

\* the emitter sleeps after a sendto that raised, the last datagram raised in
\* the listener, the only notification failed and the sweep sleeps again, and
\* both a Monitor connection and a registration connection were closed by
\* their handler, while CS1 stays registered and the target stays set
C24_Witness ==
    /\ e_pc = "sleep" /\ e_failed
    /\ u_last = "error" /\ u_pc = "recvfrom" /\ servers_lock = "free"
    /\ IsStatus(servers, ServerId, "dead")
    /\ attempts[ServerId] = 1 /\ outbox = <<>>
    /\ h_pc = "sleep"
    /\ index_server_addr = IndexNotifyAddr /\ ~m_open /\ m_reply = NoReply
    /\ ServerId \in DOMAIN content_servers /\ r_reply = None

\* CS1, once in the Monitor Store, is alive and was never flipped
NeverMarkedDead ==
    /\ ServerId \in DOMAIN servers => servers[ServerId].status = "alive"
    /\ flips[ServerId] = 0
    /\ \A i \in 1..Len(outbox) : outbox[i].message[2] # ServerId

\* what the sweep compares with the timeout is at most the gap of one lost
\* heartbeat
GapWithinTimeout ==
    h_pc \in {"acquire", "scan", "notify"} /\ ServerId \in DOMAIN servers =>
        current_time - servers[ServerId].last_seen <= 2 * HEARTBEAT_INTERVAL

\* C31: with a heartbeat every 3, a timeout of 8 and a sweep every 2, CS1,
\* whose heartbeats never fail twice in a row, is never marked dead by the
\* Monitor, however the listener and the sweep take servers_lock.
C31_LossTolerance == NeverMarkedDead /\ GapWithinTimeout

\* the sweep that found CS2 dead earlier is about to test CS1 with a sample
\* 6 after its last stored heartbeat: one heartbeat failed, the next one is
\* in the hands of the listener, which waits for the lock
C31_Witness ==
    /\ h_pc = "scan" /\ servers_lock = "checker"
    /\ srv_order = <<"CS2", ServerId>> /\ h_iter = 2
    /\ IsStatus(servers, "CS2", "dead")
    /\ IsStatus(servers, ServerId, "alive")
    /\ current_time - servers[ServerId].last_seen = 2 * HEARTBEAT_INTERVAL
    /\ u_pc = "acquire"

\* handlers of handle_client between their count-in and their count-out
OpenHandlers ==
    (IF x_pc \in {"recv", "closing"} THEN 1 ELSE 0)
    + (IF y_pc \in {"recv", "closing"} THEN 1 ELSE 0)

CounterMatches ==
    /\ active_clients = OpenHandlers
    /\ active_clients >= 0
    /\ x_pc \in {"none", "closed"} /\ y_pc \in {"none", "closed"} => active_clients = 0

\* the counter moves by one, up when a handler starts and down when it ends,
\* whether it answered or not
CountedOnce ==
    /\ x_pc = "closing" /\ x_pc' = "closed" => active_clients' = active_clients - 1
    /\ y_pc = "closing" /\ y_pc' = "closed" => active_clients' = active_clients - 1
    /\ x_pc' = x_pc /\ y_pc' = y_pc => active_clients' = active_clients
    /\ active_clients' - active_clients \in {-1, 0, 1}

\* a heartbeat that the Monitor stores carries the counter as its load
LoadIsCounter ==
    EmitterSend("received") =>
        ServerId \in DOMAIN servers' /\ servers'[ServerId].load = active_clients

====
